---- MODULE Spec2Model ----
(***************************************************************************)
(* Model of the token-images sync orchestrator (SyncService): the          *)
(* per-chain SyncStatus map, the rate-limit gate of startSync, and the     *)
(* background pipeline performSync with its phases (token-registry fetch,  *)
(* bulk storage check, local-copy probe, migration, download, finalize).   *)
(*                                                                         *)
(* Conventions.  A JavaScript value that may be undefined/null is a        *)
(* sequence of length 0 or 1 (<<>> is undefined/null), except for the      *)
(* optional fields of a SyncStatus object, which are present or missing    *)
(* in the record's DOMAIN exactly as the properties of the object are.     *)
(* The Map syncStatuses is a function whose DOMAIN is the set of keys.     *)
(* An address is a sequence of one-character strings, so that              *)
(* toLowerCase() is computed and not assumed.                              *)
(***************************************************************************)
EXTENDS Integers, Sequences, FiniteSets, TLC

VARIABLES
    now,           \* Date.now(), in milliseconds
    ticks,         \* number of clock advances taken so far (bounds the model)
    syncStatuses,  \* SyncService.syncStatuses : Map<chainId, SyncStatus>
    pipes,         \* per chain, the performSync invocations in flight
    storage,       \* the objects held by the storage gateway
    last,          \* the most recent step: the call or the external event
                   \* delivered, its inputs and what it returned
    replaced,      \* per chain, what the sync before the current one left:
                   \* <<>> or the token addresses and tallies of the
                   \* completed record the latest accepted startSync replaced
    localStorage,  \* the directories of the local-storage back end
    resolution     \* one ImageProviderManager.fetchImage call followed
                   \* provider by provider: the fan-outs in flight, the
                   \* order in which providers settled, the value returned

\* the variables the sync pipeline does not touch: it runs with
\* STORAGE_MODE "s3", and its calls of the provider chain are taken as one
\* step each (the operator fetchImage)
gatewayVars == <<localStorage, resolution>>

vars == <<now, ticks, syncStatuses, pipes, storage, last, replaced,
          localStorage, resolution>>

----------------------------------------------------------------------------
(* Bounds of the model *)

\* the clock advances at most MaxTicks times
MaxTicks == 5
\* the value of Date.now() when the process starts (any positive instant)
Epoch == 1

----------------------------------------------------------------------------
(* Program constants *)

RATE_LIMIT_MINUTES == 1
rateLimitMs == RATE_LIMIT_MINUTES * 60 * 1000
batchSize == 20
FETCH_IMAGE_DELAY_MS == 2000
MIGRATION_BATCH_DELAY_MS == 100
STORAGE_MODE == "s3"

\* the chain ids that exist, and those that callers ask to sync
Chains == {1, 2}
DrivenChains == {1}

\* the amounts by which the clock is advanced between two steps
TickSteps == {1, rateLimitMs - 1}

----------------------------------------------------------------------------
(* Small JavaScript helpers *)

Max(a, b) == IF a >= b THEN a ELSE b
Min(a, b) == IF a <= b THEN a ELSE b

\* Math.floor(x / (60 * 1000)) and Math.ceil(x / (60 * 1000)) for x >= 0
FloorMinutes(x) == x \div (60 * 1000)
CeilMinutes(x) == (x + (60 * 1000) - 1) \div (60 * 1000)

LowerChar(ch) ==
    CASE ch = "A" -> "a"
      [] ch = "B" -> "b"
      [] ch = "C" -> "c"
      [] ch = "D" -> "d"
      [] ch = "E" -> "e"
      [] ch = "F" -> "f"
      [] ch = "G" -> "g"
      [] ch = "J" -> "j"
      [] ch = "N" -> "n"
      [] ch = "P" -> "p"
      [] OTHER -> ch

\* String.prototype.toLowerCase on an address
ToLowerCase(s) == [i \in DOMAIN s |-> LowerChar(s[i])]

\* { ...current, ...updates }
Merge(current, updates) ==
    CHOOSE merged \in
        {[f \in (DOMAIN c) \cup (DOMAIN u) |->
             IF f \in DOMAIN u THEN u[f] ELSE c[f]] :
           c \in {current}, u \in {updates}} : TRUE

\* Map.prototype.set
MapSet(m, k, v) == (k :> v) @@ m

----------------------------------------------------------------------------
(* Rate limiting and status queries *)

Has(ss, chainId) == chainId \in DOMAIN ss

IsTerminal(st) == st.status = "completed" \/ st.status = "failed"

\* a variant that measures the cool-down of a terminal record from its start
RelevantTime_FromStart(st) == st.startTime

\* currentStatus.endTime || currentStatus.startTime
RelevantTime(st) ==
    IF "endTime" \in DOMAIN st /\ st.endTime # 0 THEN st.endTime ELSE st.startTime

\* the RateLimitError built for a record whose reference time is ref
RateLimitErrorAt(ss, chainId, t, ref) ==
    [rateLimited |-> TRUE,
     chainId |-> chainId,
     remainingTime |-> rateLimitMs - (t - ref),
     message |-> <<"Rate limit exceeded. Last sync", ss[chainId].status,
                   FloorMinutes(t - ref), "minute(s) ago. Please wait",
                   CeilMinutes(rateLimitMs - (t - ref)), "more minute(s).">>]

\* a variant that does not look at running syncs
checkRateLimit_IgnoresRunning(ss, chainId, t) ==
    IF Has(ss, chainId) /\ IsTerminal(ss[chainId])
          /\ t - RelevantTime(ss[chainId]) < rateLimitMs
    THEN <<RateLimitErrorAt(ss, chainId, t, RelevantTime(ss[chainId]))>>
    ELSE <<>>

\* a variant that does not look at completed or failed syncs
checkRateLimit_IgnoresTerminal(ss, chainId, t) ==
    IF Has(ss, chainId) /\ ss[chainId].status = "running"
          /\ t - ss[chainId].startTime < rateLimitMs
    THEN <<RateLimitErrorAt(ss, chainId, t, ss[chainId].startTime)>>
    ELSE <<>>

\* SyncService.checkRateLimit: <<>> (null) when the limit is passed, else
\* <<the RateLimitError>>
checkRateLimit(ss, chainId, t) ==
    IF Has(ss, chainId) /\ ss[chainId].status = "running"
          /\ t - ss[chainId].startTime < rateLimitMs
    THEN LET timeDiff == t - ss[chainId].startTime IN
         <<[rateLimited |-> TRUE,
            chainId |-> chainId,
            remainingTime |-> rateLimitMs - timeDiff,
            message |-> <<"Sync is currently running. Started",
                          FloorMinutes(timeDiff), "minute(s) ago.">>]>>
    ELSE IF Has(ss, chainId) /\ IsTerminal(ss[chainId])
          /\ t - RelevantTime(ss[chainId]) < rateLimitMs
    THEN LET timeDiff == t - RelevantTime(ss[chainId])
             remainingTime == rateLimitMs - timeDiff IN
         <<[rateLimited |-> TRUE,
            chainId |-> chainId,
            remainingTime |-> remainingTime,
            message |-> <<"Rate limit exceeded. Last sync", ss[chainId].status,
                          FloorMinutes(timeDiff), "minute(s) ago. Please wait",
                          CeilMinutes(remainingTime), "more minute(s).">>]>>
    ELSE <<>>

\* a variant that does not cut the remaining time off at 0
calculateRemainingTime_Unclamped(ss, chainId, t) ==
    IF ~Has(ss, chainId) THEN 0
    ELSE IF ss[chainId].status = "running"
    THEN rateLimitMs - (t - ss[chainId].startTime)
    ELSE rateLimitMs - (t - RelevantTime(ss[chainId]))

\* SyncService.calculateRemainingTime
calculateRemainingTime(ss, chainId, t) ==
    IF ~Has(ss, chainId) THEN 0
    ELSE IF ss[chainId].status = "running"
    THEN Max(0, rateLimitMs - (t - ss[chainId].startTime))
    ELSE IF IsTerminal(ss[chainId])
    THEN Max(0, rateLimitMs - (t - RelevantTime(ss[chainId])))
    ELSE 0

\* SyncService.getSyncStatus: <<>> (null) or <<status with remainingTime>>
getSyncStatus(ss, chainId, t) ==
    IF ~Has(ss, chainId) THEN <<>>
    ELSE <<Merge(ss[chainId],
                 [remainingTime |-> calculateRemainingTime(ss, chainId, t)])>>

\* a variant that applies the updates to the record of every chain
updateSyncStatus_EveryChain(ss, chainId, updates) ==
    IF Has(ss, chainId)
    THEN [k \in DOMAIN ss |-> Merge(ss[k], updates)]
    ELSE ss

\* SyncService.updateSyncStatus
updateSyncStatus(ss, chainId, updates) ==
    IF Has(ss, chainId)
    THEN MapSet(ss, chainId, Merge(ss[chainId], updates))
    ELSE ss

----------------------------------------------------------------------------
(* The storage gateway and the provider chain, as the pipeline uses them *)

\* the object key `${chainId}/${address.toLowerCase()}/image`
StorageKey(chainId, address) ==
    [chainId |-> chainId, address |-> ToLowerCase(address)]

StorageHas(store, chainId, address) ==
    \E o \in store : o.key = StorageKey(chainId, address)

\* a variant of the write that records no provider
StoragePut_ProviderUnknown(store, chainId, address, imageBuffer, extension, metadata) ==
    {o \in store : o.key # StorageKey(chainId, address)}
        \cup {[key |-> StorageKey(chainId, address),
               body |-> imageBuffer,
               extension |-> extension,
               provider |-> "unknown",
               originalUrl |-> metadata.originalUrl]}

\* uploadImageToStorage when the write succeeds: one object per key,
\* overwritten by a later put
StoragePut(store, chainId, address, imageBuffer, extension, metadata) ==
    {o \in store : o.key # StorageKey(chainId, address)}
        \cup {[key |-> StorageKey(chainId, address),
               body |-> imageBuffer,
               extension |-> extension,
               provider |-> metadata.provider,
               originalUrl |-> metadata.originalUrl]}

\* ImageProviderManager.providers, in registration order
Providers ==
    <<"local", "coingecko", "1inch", "alchemy", "sim-dune", "pendle",
      "token-lists", "pendle-pt-underlying">>

\* What one provider does for one token, as the environment decides it:
\* available is isAvailable(), throws is whether fetchImage rejects, result
\* is what it resolves to (<<>> is null).
ProviderAbsent == [available |-> TRUE, throws |-> FALSE, result |-> <<>>]
ProviderThrows == [available |-> TRUE, throws |-> TRUE, result |-> <<>>]
ProviderUnavailable == [available |-> FALSE, throws |-> FALSE, result |-> <<>>]
ProviderFound(r) == [available |-> TRUE, throws |-> FALSE, result |-> <<r>>]

\* a variant whose promise carries the rejection of a throwing provider
ProviderPromise_ThrowRejects(outcome) ==
    IF ~outcome.available THEN <<>>
    ELSE IF outcome.throws THEN <<[rejected |-> TRUE]>>
    ELSE outcome.result

\* the entry of the results array the fan-out builds for one provider
ProviderPromise(outcome) ==
    IF ~outcome.available THEN <<>>
    ELSE IF outcome.throws THEN <<>>
    ELSE outcome.result

\* a variant that scans the results from the last provider to the first
FirstResult_LastWins(results) ==
    IF \A k \in DOMAIN results : results[k] = <<>> THEN <<>>
    ELSE results[CHOOSE k \in DOMAIN results :
                    /\ results[k] # <<>>
                    /\ \A j \in DOMAIN results : j > k => results[j] = <<>>]

RECURSIVE FirstResult(_)
FirstResult(results) ==
    IF results = <<>> THEN <<>>
    ELSE IF Head(results) # <<>> THEN Head(results)
    ELSE FirstResult(Tail(results))

\* ImageProviderManager.fetchImage: all providers are awaited, the first
\* non-null result in registration order is returned
fetchImage(outcomes) ==
    FirstResult([k \in DOMAIN Providers |-> ProviderPromise(outcomes[k])])

----------------------------------------------------------------------------
(* The token registry *)

\* Error objects thrown inside performSync
TypeErrorLength ==
    [isError |-> TRUE,
     message |-> "Cannot read properties of null (reading 'length')"]
TypeErrorToLowerCase ==
    [isError |-> TRUE,
     message |-> "Cannot read properties of undefined (reading 'toLowerCase')"]

\* a variant that never reports the message of the exception
ErrorMessage_AlwaysUnknown(error) == "Unknown error"

\* error instanceof Error ? error.message : 'Unknown error'
ErrorMessage(error) == IF error.isError THEN error.message ELSE "Unknown error"

\* A JSON value the registry answers with: null, or an array of tokens.  A
\* token is modelled by its address field; <<>> is a token without one.
JsonNull == [null |-> TRUE, items |-> <<>>]
JsonArray(items) == [null |-> FALSE, items |-> items]

\* a variant whose catch block returns null instead of an empty list
fetchTokensFromEuler_CatchReturnsNull(response) ==
    IF response.kind = "networkError" THEN JsonNull
    ELSE IF response.kind = "notOk" THEN JsonArray(<<>>)
    ELSE response.body

\* SyncService.fetchTokensFromEuler, given what fetch() did:
\*   kind "networkError" (fetch rejects), "notOk" (!response.ok), or
\*   "ok" with the parsed body
fetchTokensFromEuler(response) ==
    IF response.kind = "networkError" THEN JsonArray(<<>>)
    ELSE IF response.kind = "notOk" THEN JsonArray(<<>>)
    ELSE response.body

----------------------------------------------------------------------------
(* performSync.  Each operator below is the code that runs between two     *)
(* suspension points that wait for the outside world; it takes the status  *)
(* map ss, the chain, the locals p of the invocation and the clock t, and  *)
(* yields the new map and locals.  p.pc names the await the invocation is  *)
(* suspended at ("done" when it has returned).  A phase over an empty list *)
(* awaits nothing external and runs on into the next one.                  *)

Done(ss, p) == [ss |-> ss, p |-> Merge(p, [pc |-> "done"])]

\* a variant that forgets the chain when its sync fails
FailSync_DropsRecord(ss, chainId, p, t, error) ==
    Done([k \in (DOMAIN ss) \ {chainId} |-> ss[k]], p)

\* the catch block of performSync
FailSync(ss, chainId, p, t, error) ==
    Done(updateSyncStatus(ss, chainId,
            [status |-> "failed",
             endTime |-> t,
             error |-> ErrorMessage(error)]), p)

\* a variant that completes an empty chain without attaching the result
CompleteEmpty_NoResult(ss, chainId, p, t) ==
    Done(updateSyncStatus(ss, chainId,
            [status |-> "completed", endTime |-> t]), p)

\* the early return for an empty token list
CompleteEmpty(ss, chainId, p, t) ==
    LET result == [chainId |-> chainId,
                   totalTokens |-> 0,
                   existingImages |-> 0,
                   migratedFromLocal |-> 0,
                   downloadedImages |-> 0,
                   failedDownloads |-> 0,
                   duration |-> t - p.startTime,
                   details |-> <<>>]
    IN Done(updateSyncStatus(ss, chainId,
            [status |-> "completed", endTime |-> t, result |-> result]), p)

ExistsDetail(check) == [address |-> check.address, status |-> "exists"]

\* a variant that ends the invocation without setting the final status
Finalize_LeavesRunning(ss, chainId, p, t) == Done(ss, p)

\* step 6: compile the result and set the final status
Finalize(ss, chainId, p, t) ==
    LET existing == SelectSeq(p.existenceChecks, LAMBDA check : check.exists)
        result ==
            [chainId |-> chainId,
             totalTokens |-> Len(p.tokens),
             existingImages |-> p.existingInStorageCount,
             migratedFromLocal |-> p.migrationResults.migrated,
             downloadedImages |-> p.downloadResults.downloaded,
             failedDownloads |->
                 p.migrationResults.failed + p.downloadResults.failed,
             duration |-> t - p.startTime,
             details |->
                 [k \in DOMAIN existing |-> ExistsDetail(existing[k])]
                     \o p.migrationResults.details
                     \o p.downloadResults.details]
    IN Done(updateSyncStatus(ss, chainId,
            [status |-> "completed",
             endTime |-> t,
             result |-> result,
             progress |-> [phase |-> "completed",
                           current |-> Len(p.tokens),
                           total |-> Len(p.tokens)]]), p)

\* downloadImageBuffer, given whether the GET succeeded with an ok response
downloadImageBuffer(url, httpOk) == IF httpOk THEN <<"bytes">> ELSE <<>>

\* imageResult.url || imageResult.path || 'unknown'
OriginalUrl(imageResult) ==
    IF "url" \in DOMAIN imageResult THEN imageResult.url
    ELSE IF "path" \in DOMAIN imageResult THEN imageResult.path
    ELSE <<"unknown">>

\* a variant of DownloadToken whose detail for a failed download of the URL
\* leaves the provider out
DownloadToken_FailureOmitsProvider(store, token, outcome) ==
    LET imageResult == fetchImage(outcome.providers)
        imageBuffer ==
            IF imageResult = <<>> THEN <<>>
            ELSE IF "buffer" \in DOMAIN imageResult[1]
            THEN <<imageResult[1].buffer>>
            ELSE IF "url" \in DOMAIN imageResult[1]
            THEN downloadImageBuffer(imageResult[1].url, outcome.httpOk)
            ELSE <<>>
    IN IF imageBuffer = <<>>
       THEN [detail |-> [address |-> token.address, status |-> "failed"],
             downloaded |-> FALSE, store |-> store]
       ELSE IF outcome.uploadSuccess
       THEN [detail |-> [address |-> token.address, status |-> "downloaded",
                         provider |-> imageResult[1].provider],
             downloaded |-> TRUE,
             store |-> StoragePut(store, token.chainId, token.address,
                           imageBuffer[1], imageResult[1].extension,
                           [provider |-> imageResult[1].provider,
                            originalUrl |-> OriginalUrl(imageResult[1])])]
       ELSE [detail |-> [address |-> token.address, status |-> "failed",
                         provider |-> imageResult[1].provider],
             downloaded |-> FALSE, store |-> store]

\* a variant of DownloadToken that does not look at what the upload returned
DownloadToken_IgnoresUploadResult(store, token, outcome) ==
    LET imageResult == fetchImage(outcome.providers) IN
    IF imageResult = <<>>
    THEN [detail |-> [address |-> token.address, status |-> "failed"],
          downloaded |-> FALSE, store |-> store]
    ELSE LET r == imageResult[1]
             imageBuffer ==
                 IF "buffer" \in DOMAIN r THEN <<r.buffer>>
                 ELSE IF "url" \in DOMAIN r
                 THEN downloadImageBuffer(r.url, outcome.httpOk)
                 ELSE <<>>
         IN IF imageBuffer = <<>>
            THEN [detail |-> [address |-> token.address, status |-> "failed",
                              provider |-> r.provider],
                  downloaded |-> FALSE, store |-> store]
            ELSE [detail |-> [address |-> token.address,
                              status |-> "downloaded",
                              provider |-> r.provider],
                  downloaded |-> TRUE,
                  store |-> IF outcome.uploadSuccess
                            THEN StoragePut(store, token.chainId,
                                     token.address, imageBuffer[1],
                                     r.extension,
                                     [provider |-> r.provider,
                                      originalUrl |-> OriginalUrl(r)])
                            ELSE store]

\* One iteration of the loop of downloadMissingImages for `token`, given the
\* outcome of its external calls: what each provider did, whether the image
\* GET succeeded, whether the storage write succeeded.  Yields the detail
\* pushed, whether it counts as downloaded, and the store.
DownloadToken(store, token, outcome) ==
    LET imageResult == fetchImage(outcome.providers) IN
    IF imageResult = <<>>
    THEN [detail |-> [address |-> token.address, status |-> "failed"],
          downloaded |-> FALSE, store |-> store]
    ELSE LET r == imageResult[1]
             imageBuffer ==
                 IF "buffer" \in DOMAIN r THEN <<r.buffer>>
                 ELSE IF "url" \in DOMAIN r
                 THEN downloadImageBuffer(r.url, outcome.httpOk)
                 ELSE <<>>
         IN IF imageBuffer = <<>>
            THEN [detail |-> [address |-> token.address, status |-> "failed",
                              provider |-> r.provider],
                  downloaded |-> FALSE, store |-> store]
            ELSE IF outcome.uploadSuccess
            THEN [detail |-> [address |-> token.address,
                              status |-> "downloaded",
                              provider |-> r.provider],
                  downloaded |-> TRUE,
                  store |-> StoragePut(store, token.chainId, token.address,
                                imageBuffer[1], r.extension,
                                [provider |-> r.provider,
                                 originalUrl |-> OriginalUrl(r)])]
            ELSE [detail |-> [address |-> token.address, status |-> "failed",
                              provider |-> r.provider],
                  downloaded |-> FALSE, store |-> store]

\* the body of one async callback of batch.map in migrateLocalImages, given
\* what the local provider returned and whether the storage write succeeded
MigrateToken(store, token, outcome) ==
    IF outcome.localImage = <<>> \/ "buffer" \notin DOMAIN outcome.localImage[1]
    THEN [detail |-> [address |-> token.address, status |-> "failed"],
          success |-> FALSE, store |-> store]
    ELSE LET localImage == outcome.localImage[1] IN
         IF outcome.uploadSuccess
         THEN [detail |-> [address |-> token.address, status |-> "migrated",
                           provider |-> "local-migration"],
               success |-> TRUE,
               store |-> StoragePut(store, token.chainId, token.address,
                             localImage.buffer, localImage.extension,
                             [provider |-> "local-migration",
                              originalUrl |->
                                  IF "path" \in DOMAIN localImage
                                  THEN localImage.path ELSE <<"unknown">>])]
         ELSE [detail |-> [address |-> token.address, status |-> "failed",
                           provider |-> "local-migration"],
               success |-> FALSE, store |-> store]

\* The callbacks of one batch, settled in the order `order` (a sequence of
\* positions of the batch): the details they push, in that order, each
\* token's success flag, and the store.
RECURSIVE MigrateBatch(_, _, _, _)
MigrateBatch(store, batch, outcomes, order) ==
    IF order = <<>>
    THEN [details |-> <<>>, store |-> store, success |-> {}]
    ELSE LET k == Head(order)
             one == MigrateToken(store, batch[k], outcomes[k])
             rest == MigrateBatch(one.store, batch, outcomes, Tail(order))
         IN [details |-> <<one.detail>> \o rest.details,
             store |-> rest.store,
             success |-> (IF one.success THEN {k} ELSE {}) \cup rest.success]

\* step 5 begins: downloadMissingImages(stillMissingTokens)
EnterDownload(ss, chainId, p, t) ==
    LET ss1 == updateSyncStatus(ss, chainId,
                   [progress |-> [phase |-> "downloading missing images",
                                  current |-> 0,
                                  total |-> Len(p.stillMissingTokens)]])
        p1 == Merge(p, [downloadResults |->
                            [downloaded |-> 0, failed |-> 0, details |-> <<>>],
                        i |-> 0])
    IN IF Len(p.stillMissingTokens) = 0
       THEN Finalize(ss1, chainId, p1, t)
       ELSE [ss |-> ss1,
             p |-> Merge(p1, [pc |-> "download",
                              readyAt |-> t + FETCH_IMAGE_DELAY_MS])]

\* a variant that starts the downloads without awaiting the migration
EnterMigrate_SkipsMigration(ss, chainId, p, t) ==
    EnterDownload(
        updateSyncStatus(ss, chainId,
            [progress |-> [phase |-> "migrating local source images",
                           current |-> 0,
                           total |-> Len(p.hasLocalImages)]]),
        chainId,
        Merge(p, [migrationResults |->
                      [migrated |-> 0, failed |-> 0, details |-> <<>>],
                  i |-> 0]),
        t)

\* step 4 begins: migrateLocalImages(hasLocalImages)
EnterMigrate(ss, chainId, p, t) ==
    LET ss1 == updateSyncStatus(ss, chainId,
                   [progress |-> [phase |-> "migrating local source images",
                                  current |-> 0,
                                  total |-> Len(p.hasLocalImages)]])
        p1 == Merge(p, [migrationResults |->
                            [migrated |-> 0, failed |-> 0, details |-> <<>>],
                        i |-> 0])
    IN IF Len(p.hasLocalImages) = 0
       THEN EnterDownload(ss1, chainId, p1, t)
       ELSE [ss |-> ss1, p |-> Merge(p1, [pc |-> "migrate", readyAt |-> t])]

\* the local checks are partitioned
AfterLocalChecks(ss, chainId, p, t, localChecks) ==
    EnterMigrate(ss, chainId,
        Merge(p, [hasLocalImages |->
                      SelectSeq(localChecks, LAMBDA check : check.hasLocal),
                  stillMissingTokens |->
                      SelectSeq(localChecks, LAMBDA check : ~check.hasLocal)]),
        t)

\* step 3 begins: the existence checks are partitioned and the local probe
\* of the missing tokens is started
\* a variant that passes every checked token on to the later phases
AfterExistenceChecks_KeepsPresent(ss, chainId, p, t, existenceChecks) ==
    LET missingFromStorage == existenceChecks
        ss1 == updateSyncStatus(ss, chainId,
                   [progress |-> [phase |-> "checking local source images",
                                  current |-> 0,
                                  total |-> Len(missingFromStorage)]])
        p1 == Merge(p, [existenceChecks |-> existenceChecks,
                        missingFromStorage |-> missingFromStorage,
                        existingInStorageCount |->
                            Len(existenceChecks)
                               - Len(SelectSeq(existenceChecks,
                                       LAMBDA check : ~check.exists))])
    IN IF Len(missingFromStorage) = 0
       THEN AfterLocalChecks(ss1, chainId, p1, t, <<>>)
       ELSE [ss |-> ss1, p |-> Merge(p1, [pc |-> "localProbe"])]

AfterExistenceChecks(ss, chainId, p, t, existenceChecks) ==
    LET missingFromStorage ==
            SelectSeq(existenceChecks, LAMBDA check : ~check.exists)
        ss1 == updateSyncStatus(ss, chainId,
                   [progress |-> [phase |-> "checking local source images",
                                  current |-> 0,
                                  total |-> Len(missingFromStorage)]])
        p1 == Merge(p, [existenceChecks |-> existenceChecks,
                        missingFromStorage |-> missingFromStorage,
                        existingInStorageCount |->
                            Len(existenceChecks) - Len(missingFromStorage)])
    IN IF Len(missingFromStorage) = 0
       THEN AfterLocalChecks(ss1, chainId, p1, t, <<>>)
       ELSE [ss |-> ss1, p |-> Merge(p1, [pc |-> "localProbe"])]

\* `checking ${STORAGE_MODE} storage`
CheckingStoragePhase ==
    IF STORAGE_MODE = "s3" THEN "checking s3 storage"
    ELSE "checking local storage"

\* the code after `await this.fetchTokensFromEuler(chainId)` up to the await
\* of the bulk existence check
AfterFetchTokens(ss, chainId, p, t, tokens) ==
    IF tokens.null
    THEN FailSync(ss, chainId, p, t, TypeErrorLength)
    ELSE IF Len(tokens.items) = 0
    THEN CompleteEmpty(ss, chainId, p, t)
    ELSE LET ss1 == updateSyncStatus(ss, chainId,
                        [progress |->
                            [phase |-> CheckingStoragePhase,
                             current |-> 0,
                             total |-> Len(tokens.items)]])
         IN IF \E k \in DOMAIN tokens.items : tokens.items[k] = <<>>
            THEN FailSync(ss1, chainId, p, t, TypeErrorToLowerCase)
            ELSE [ss |-> ss1,
                  p |-> Merge(p,
                          [pc |-> "bulkCheck",
                           tokens |-> tokens.items,
                           tokenList |->
                               [k \in DOMAIN tokens.items |->
                                   [chainId |-> chainId,
                                    address |-> ToLowerCase(tokens.items[k])]]])]

\* a variant that reaches the first await without reporting progress
BeginSync_NoProgress(ss, chainId, t) ==
    [ss |-> ss,
     p |-> [pc |-> "fetchTokens", chainId |-> chainId, startTime |-> t]]

\* performSync from its call to its first await: the fetch of the token list
BeginSync(ss, chainId, t) ==
    [ss |-> updateSyncStatus(ss, chainId,
                [progress |-> [phase |-> "fetching tokens",
                               current |-> 0, total |-> 1]]),
     p |-> [pc |-> "fetchTokens", chainId |-> chainId, startTime |-> t]]

\* a variant that counts a batch with failures as a single failure
AfterMigrateBatch_OneFailurePerBatch(ss, chainId, p, t, batch, b) ==
    LET p1 == Merge(p, [migrationResults |->
                  [migrated |-> p.migrationResults.migrated
                                    + Cardinality(b.success),
                   failed |-> p.migrationResults.failed
                                  + (IF Cardinality(b.success) < Len(batch)
                                     THEN 1 ELSE 0),
                   details |-> p.migrationResults.details \o b.details]])
    IN IF p.i + batchSize < Len(p.hasLocalImages)
       THEN [ss |-> ss,
             p |-> Merge(p1, [i |-> p.i + batchSize,
                              readyAt |-> t + MIGRATION_BATCH_DELAY_MS])]
       ELSE EnterDownload(ss, chainId, p1, t)

\* the code of migrateLocalImages after the all-settle join of one batch,
\* b being what the callbacks of the batch did
AfterMigrateBatch(ss, chainId, p, t, batch, b) ==
    LET p1 == Merge(p, [migrationResults |->
                  [migrated |-> p.migrationResults.migrated
                                    + Cardinality(b.success),
                   failed |-> p.migrationResults.failed
                                  + (Len(batch) - Cardinality(b.success)),
                   details |-> p.migrationResults.details \o b.details]])
    IN IF p.i + batchSize < Len(p.hasLocalImages)
       THEN [ss |-> ss,
             p |-> Merge(p1, [i |-> p.i + batchSize,
                              readyAt |-> t + MIGRATION_BATCH_DELAY_MS])]
       ELSE EnterDownload(ss, chainId, p1, t)

\* a variant of the tallies that leaves a failed download uncounted
CountDownload_FailuresUncounted(p, d) ==
    Merge(p, [downloadResults |->
                  [downloaded |-> p.downloadResults.downloaded
                                      + (IF d.downloaded THEN 1 ELSE 0),
                   failed |-> p.downloadResults.failed,
                   details |-> Append(p.downloadResults.details, d.detail)],
              i |-> p.i + 1])

\* the counters and details of downloadMissingImages after an iteration
\* that did d
CountDownload(p, d) ==
    Merge(p, [downloadResults |->
                  [downloaded |-> p.downloadResults.downloaded
                                      + (IF d.downloaded THEN 1 ELSE 0),
                   failed |-> p.downloadResults.failed
                                  + (IF d.downloaded THEN 0 ELSE 1),
                   details |-> Append(p.downloadResults.details, d.detail)],
              i |-> p.i + 1])

\* a variant in which a token that could not be downloaded aborts the sync
AfterDownloadToken_AbortsOnFailure(ss, chainId, p, t, d) ==
    IF ~d.downloaded
    THEN FailSync(ss, chainId, p, t,
             [isError |-> TRUE, message |-> "download failed"])
    ELSE IF CountDownload(p, d).i < Len(p.stillMissingTokens)
    THEN [ss |-> ss,
          p |-> Merge(CountDownload(p, d),
                      [readyAt |-> t + FETCH_IMAGE_DELAY_MS])]
    ELSE Finalize(ss, chainId, CountDownload(p, d), t)

\* the code of downloadMissingImages after one iteration, d being what the
\* iteration did
AfterDownloadToken(ss, chainId, p, t, d) ==
    LET p1 == CountDownload(p, d)
    IN IF p1.i < Len(p.stillMissingTokens)
       THEN [ss |-> ss,
             p |-> Merge(p1, [readyAt |-> t + FETCH_IMAGE_DELAY_MS])]
       ELSE Finalize(ss, chainId, p1, t)

----------------------------------------------------------------------------
(* The inputs the environment supplies *)

Addr1 == <<"0", "x", "A", "b">>
Addr2 == <<"0", "x", "c", "D">>

\* the token arrays the registry answers with: one lists the same address
\* in two letter cases, the last one holds a token that has no address
TokenBodies ==
    {<<>>, <<Addr1>>, <<Addr1, Addr2>>, <<Addr1, ToLowerCase(Addr1)>>,
     <<Addr1, <<>>>>}

RegistryResponses ==
    {[kind |-> "networkError"], [kind |-> "notOk"],
     [kind |-> "ok", body |-> JsonNull]}
        \cup {[kind |-> "ok", body |-> JsonArray(b)] : b \in TokenBodies}

\* what LocalImagesProvider.fetchImage returns when the file is there
LocalImage(chainId, address) ==
    [buffer |-> "bytes",
     provider |-> "local",
     extension |-> "png",
     path |-> <<"images", chainId, ToLowerCase(address), "image.png">>]

\* what a remote provider returns when it knows the token
RemoteImage(provider, address) ==
    [url |-> <<"https", provider, address>>,
     provider |-> provider,
     extension |-> "png"]

\* The provider outcomes tried for one token: every provider absent, except
\* that the local provider may find a file and that coingecko may be
\* unavailable, throw or find a URL.
ProviderOutcomes(token) ==
    {[k \in DOMAIN Providers |->
         IF k = 1 THEN o1 ELSE IF k = 2 THEN o2 ELSE ProviderAbsent] :
       o1 \in {ProviderAbsent,
               ProviderFound(LocalImage(token.chainId, token.address))},
       o2 \in {ProviderAbsent, ProviderThrows, ProviderUnavailable,
               ProviderFound(RemoteImage("coingecko", token.address))}}

\* the outcomes of one download iteration; an input that the iteration does
\* not consult is FALSE
DownloadOutcomes(token) ==
    {o \in [providers : ProviderOutcomes(token),
            httpOk : BOOLEAN, uploadSuccess : BOOLEAN] :
        LET r == fetchImage(o.providers) IN
        /\ (o.httpOk => r # <<>> /\ "url" \in DOMAIN r[1])
        /\ (o.uploadSuccess => r # <<>>
               /\ ("url" \in DOMAIN r[1] => o.httpOk))}

\* the outcomes of one migration callback
MigrateOutcomes(token) ==
    {[localImage |-> <<>>, uploadSuccess |-> FALSE],
     [localImage |-> <<LocalImage(token.chainId, token.address)>>,
      uploadSuccess |-> TRUE],
     [localImage |-> <<LocalImage(token.chainId, token.address)>>,
      uploadSuccess |-> FALSE]}

\* the orders in which the callbacks of a batch of n tokens may settle
Orders(n) ==
    {o \in [1..n -> 1..n] : \A a, b \in 1..n : o[a] = o[b] => a = b}

----------------------------------------------------------------------------
(* startSync *)

\* the SyncStatus object startSync builds for a new sync
FreshStatus(chainId, t) ==
    [chainId |-> chainId,
     status |-> "running",
     startTime |-> t,
     progress |-> [phase |-> "initializing", current |-> 0, total |-> 0],
     remainingTime |-> RATE_LIMIT_MINUTES * 60 * 1000]

\* a variant without the branch that returns the running sync
startSync_NoExistingBranch(ss, chainId, t) ==
    LET rateLimitCheck == checkRateLimit(ss, chainId, t) IN
    IF rateLimitCheck # <<>>
    THEN [kind |-> "rateLimited", returned |-> rateLimitCheck[1],
          ss |-> ss, launched |-> <<>>]
    ELSE LET syncStatus == FreshStatus(chainId, t)
             begun == BeginSync(MapSet(ss, chainId, syncStatus), chainId, t)
         IN [kind |-> "started", returned |-> syncStatus,
             ss |-> begun.ss, launched |-> <<begun.p>>]

\* a variant that writes the new sync over the record it finds, keeping the
\* fields the new sync does not set
startSync_UpdatesPrevious(ss, chainId, t) ==
    LET rateLimitCheck == checkRateLimit(ss, chainId, t) IN
    IF rateLimitCheck # <<>>
    THEN [kind |-> "rateLimited", returned |-> rateLimitCheck[1],
          ss |-> ss, launched |-> <<>>]
    ELSE IF Has(ss, chainId) /\ ss[chainId].status = "running"
    THEN [kind |-> "existing",
          returned |-> Merge(ss[chainId],
              [remainingTime |-> calculateRemainingTime(ss, chainId, t)]),
          ss |-> ss, launched |-> <<>>]
    ELSE LET syncStatus ==
                 IF Has(ss, chainId)
                 THEN Merge(ss[chainId], FreshStatus(chainId, t))
                 ELSE FreshStatus(chainId, t)
             begun == BeginSync(MapSet(ss, chainId, syncStatus), chainId, t)
         IN [kind |-> "started", returned |-> syncStatus,
             ss |-> begun.ss, launched |-> <<begun.p>>]

\* SyncService.startSync at clock t: the kind of answer, the value returned,
\* the status map when it returns and the performSync invocation it
\* launched (<<>> when none).  performSync runs up to its first await
\* before startSync returns.
startSync(ss, chainId, t) ==
    LET rateLimitCheck == checkRateLimit(ss, chainId, t) IN
    IF rateLimitCheck # <<>>
    THEN [kind |-> "rateLimited", returned |-> rateLimitCheck[1],
          ss |-> ss, launched |-> <<>>]
    ELSE IF Has(ss, chainId) /\ ss[chainId].status = "running"
    THEN [kind |-> "existing",
          returned |-> Merge(ss[chainId],
              [remainingTime |-> calculateRemainingTime(ss, chainId, t)]),
          ss |-> ss, launched |-> <<>>]
    ELSE LET syncStatus == FreshStatus(chainId, t)
             begun == BeginSync(MapSet(ss, chainId, syncStatus), chainId, t)
         IN [kind |-> "started", returned |-> syncStatus,
             ss |-> begun.ss, launched |-> <<begun.p>>]

----------------------------------------------------------------------------
(* The state machine *)

EmptyMap == [k \in {} |-> k]

\* syncStatuses.get(chainId), <<>> when there is none
StatusOf(ss, chainId) == IF Has(ss, chainId) THEN <<ss[chainId]>> ELSE <<>>

Init ==
    /\ now = Epoch
    /\ ticks = 0
    /\ syncStatuses = EmptyMap
    /\ pipes = [c \in Chains |-> <<>>]
    /\ storage = {}
    /\ last = [op |-> "init"]
    /\ replaced = [c \in Chains |-> <<>>]
    /\ localStorage = {}
    /\ resolution = [levels |-> <<>>]

\* time passes
Tick(d) ==
    /\ ticks < MaxTicks
    /\ now' = now + d
    /\ ticks' = ticks + 1
    /\ last' = [op |-> "tick"]
    /\ UNCHANGED <<syncStatuses, pipes, storage, replaced>>
    /\ UNCHANGED gatewayVars

\* what a record that is being replaced leaves behind: nothing unless it
\* completed, else the addresses its result lists and its tallies
Replaced(before) ==
    IF before = <<>> \/ "result" \notin DOMAIN before[1] THEN <<>>
    ELSE LET r == before[1].result IN
         <<[addresses |-> {r.details[j].address : j \in DOMAIN r.details},
            totalTokens |-> r.totalTokens,
            failedDownloads |-> r.failedDownloads]>>

\* a caller invokes startSync(c)
StartSync(c) ==
    LET r == startSync(syncStatuses, c, now) IN
    /\ syncStatuses' = r.ss
    /\ pipes' = [pipes EXCEPT ![c] = @ \o r.launched]
    /\ last' = [op |-> "startSync", chainId |-> c,
                before |-> StatusOf(syncStatuses, c),
                kind |-> r.kind, returned |-> r.returned]
    /\ replaced' = IF r.kind = "started"
                   THEN [replaced EXCEPT
                            ![c] = Replaced(StatusOf(syncStatuses, c))]
                   ELSE replaced
    /\ UNCHANGED <<now, ticks, storage>>
    /\ UNCHANGED gatewayVars

\* the sequence s without its k-th element
RemoveAt(s, k) == SubSeq(s, 1, k - 1) \o SubSeq(s, k + 1, Len(s))

\* invocation k of chain c has run on to r.p, leaving the status map r.ss
Resume(c, k, r) ==
    \E after \in {r} :
       /\ syncStatuses' = after.ss
       /\ pipes' = [pipes EXCEPT ![c] =
                       IF after.p.pc = "done" THEN RemoveAt(@, k)
                       ELSE [@ EXCEPT ![k] = after.p]]

\* The steps of a performSync invocation k of chain c, each over every
\* outcome of the external calls it waits for.

\* the fetch of the token list settles
FetchTokensSettles(c, k) ==
    /\ pipes[c][k].pc = "fetchTokens"
    /\ \E response \in RegistryResponses :
          /\ Resume(c, k, AfterFetchTokens(syncStatuses, c, pipes[c][k], now,
                              fetchTokensFromEuler(response)))
          /\ last' = [op |-> "fetchTokens", chainId |-> c,
                      response |-> response]
    /\ UNCHANGED <<now, ticks, storage, replaced>>
    /\ UNCHANGED gatewayVars

\* a variant of the bulk check that finds no image in storage
ExistenceChecks_NothingExists(store, tokenList, errors) ==
    [j \in DOMAIN tokenList |->
        [chainId |-> tokenList[j].chainId,
         address |-> tokenList[j].address,
         exists |-> FALSE]]

\* the result array of bulkCheckImagesInStorage when the checks at the
\* positions in errors hit a storage error (and so report false)
ExistenceChecks(store, tokenList, errors) ==
    [j \in DOMAIN tokenList |->
        [chainId |-> tokenList[j].chainId,
         address |-> tokenList[j].address,
         exists |-> j \notin errors
             /\ StorageHas(store, tokenList[j].chainId, tokenList[j].address)]]

\* bulkCheckImagesInStorage settles
BulkCheckSettles(c, k) ==
    /\ pipes[c][k].pc = "bulkCheck"
    /\ LET p == pipes[c][k] IN
       \E errors \in SUBSET {j \in DOMAIN p.tokenList :
               StorageHas(storage, p.tokenList[j].chainId,
                          p.tokenList[j].address)} :
          /\ Resume(c, k, AfterExistenceChecks(syncStatuses, c, p, now,
                              ExistenceChecks(storage, p.tokenList, errors)))
          /\ last' = [op |-> "bulkCheck", chainId |-> c, errors |-> errors,
                      tokenList |-> p.tokenList]
    /\ UNCHANGED <<now, ticks, storage, replaced>>
    /\ UNCHANGED gatewayVars

\* the result array of bulkCheckLocalImages when the tokens at the positions
\* in found have a local copy
LocalChecks(tokens, found) ==
    [j \in DOMAIN tokens |->
        [chainId |-> tokens[j].chainId,
         address |-> tokens[j].address,
         hasLocal |-> j \in found]]

\* bulkCheckLocalImages settles
LocalProbeSettles(c, k) ==
    /\ pipes[c][k].pc = "localProbe"
    /\ LET p == pipes[c][k] IN
       \E found \in SUBSET DOMAIN p.missingFromStorage :
          /\ Resume(c, k, AfterLocalChecks(syncStatuses, c, p, now,
                              LocalChecks(p.missingFromStorage, found)))
          /\ last' = [op |-> "localProbe", chainId |-> c, found |-> found]
    /\ UNCHANGED <<now, ticks, storage, replaced>>
    /\ UNCHANGED gatewayVars

\* the batch of migrateLocalImages that invocation p is waiting for
CurrentBatch(p) ==
    SubSeq(p.hasLocalImages, p.i + 1,
           Min(p.i + batchSize, Len(p.hasLocalImages)))

\* the callbacks of the current migration batch all settle, in some order
MigrateBatchSettles(c, k) ==
    /\ pipes[c][k].pc = "migrate"
    /\ now >= pipes[c][k].readyAt
    /\ LET p == pipes[c][k]
           batch == CurrentBatch(p)
       IN \E outcomes \in [DOMAIN batch ->
                  UNION {MigrateOutcomes(batch[j]) : j \in DOMAIN batch}] :
          \E order \in Orders(Len(batch)) :
             LET b == MigrateBatch(storage, batch, outcomes, order) IN
             /\ \A j \in DOMAIN batch :
                   outcomes[j] \in MigrateOutcomes(batch[j])
             /\ storage' = b.store
             /\ Resume(c, k,
                    AfterMigrateBatch(syncStatuses, c, p, now, batch, b))
             /\ last' = [op |-> "migrate", chainId |-> c, batch |-> batch,
                         outcomes |-> outcomes, order |-> order]
    /\ UNCHANGED <<now, ticks, replaced>>
    /\ UNCHANGED gatewayVars

\* one iteration of the download loop runs, once its delay has elapsed
DownloadSettles(c, k) ==
    /\ pipes[c][k].pc = "download"
    /\ now >= pipes[c][k].readyAt
    /\ LET p == pipes[c][k]
           token == p.stillMissingTokens[p.i + 1]
       IN \E outcome \in DownloadOutcomes(token) :
          LET d == DownloadToken(storage, token, outcome) IN
          /\ storage' = d.store
          /\ Resume(c, k, AfterDownloadToken(syncStatuses, c, p, now, d))
          /\ last' = [op |-> "download", chainId |-> c, token |-> token,
                      outcome |-> outcome]
    /\ UNCHANGED <<now, ticks, replaced>>
    /\ UNCHANGED gatewayVars

Next ==
    \/ \E d \in TickSteps : Tick(d)
    \/ \E c \in DrivenChains : StartSync(c)
    \/ \E c \in Chains : \E k \in DOMAIN pipes[c] : FetchTokensSettles(c, k)
    \/ \E c \in Chains : \E k \in DOMAIN pipes[c] : BulkCheckSettles(c, k)
    \/ \E c \in Chains : \E k \in DOMAIN pipes[c] : LocalProbeSettles(c, k)
    \/ \E c \in Chains : \E k \in DOMAIN pipes[c] : MigrateBatchSettles(c, k)
    \/ \E c \in Chains : \E k \in DOMAIN pipes[c] : DownloadSettles(c, k)

Spec == Init /\ [][Next]_vars

----------------------------------------------------------------------------
(* Properties.  last records the step just taken, so a state in which      *)
(* last.op = "startSync" is the state in which that call returns, and a    *)
(* step with last'.op = "startSync" is that call.                          *)

\* the step is a call of startSync(c)
IsStartSync(c) == last'.op = "startSync" /\ last'.chainId = c

\* the state is the one in which a call of startSync(c) returns
ReturnsFromStartSync(c) == last.op = "startSync" /\ last.chainId = c

\* the chain's record is inside the cool-down window at clock t: terminal
\* and ended less than the cool-down ago, or running and started less than
\* the cool-down ago
InCoolDown(ss, c, t) ==
    /\ Has(ss, c)
    /\ \/ IsTerminal(ss[c]) /\ t - ss[c].endTime < rateLimitMs
       \/ ss[c].status = "running" /\ t - ss[c].startTime < rateLimitMs

\* the time elapsed since the event the cool-down is measured from
Elapsed(ss, c, t) ==
    IF ss[c].status = "running" THEN t - ss[c].startTime
    ELSE t - ss[c].endTime

\* C1: a startSync call made while the chain's record is inside the
\* cool-down window (terminal and ended less than the cool-down ago, or
\* running and started less than the cool-down ago) is answered with a
\* RateLimited signal whose remainingTime is cool-down minus elapsed and is
\* positive; the call changes no record and launches no pipeline.
C1_RateLimitedInsideWindow ==
    [][\A c \in Chains :
          (IsStartSync(c) /\ InCoolDown(syncStatuses, c, now)) =>
             /\ last'.kind = "rateLimited"
             /\ last'.returned.rateLimited = TRUE
             /\ last'.returned.chainId = c
             /\ last'.returned.remainingTime
                   = rateLimitMs - Elapsed(syncStatuses, c, now)
             /\ last'.returned.remainingTime > 0
             /\ syncStatuses' = syncStatuses
             /\ pipes' = pipes
             /\ storage' = storage]_vars

\* a call made one millisecond after the start of a still running sync was
\* rejected
C1_Witness ==
    /\ last.op = "startSync"
    /\ last.kind = "rateLimited"
    /\ last.before # <<>>
    /\ last.before[1].status = "running"
    /\ last.returned.remainingTime = rateLimitMs - 1

C4_RunningPastCoolDownReturned ==
    [][\A c \in Chains :
          (IsStartSync(c) /\ Has(syncStatuses, c)
               /\ syncStatuses[c].status = "running"
               /\ now - syncStatuses[c].startTime >= rateLimitMs) =>
             /\ last'.kind = "existing"
             /\ last'.returned
                   = Merge(syncStatuses[c], [remainingTime |-> 0])
             /\ last'.returned.startTime = syncStatuses[c].startTime
             /\ last'.returned.progress = syncStatuses[c].progress
             /\ syncStatuses' = syncStatuses
             /\ pipes' = pipes
             /\ storage' = storage]_vars

\* a call returned the record of a sync that is past its first phase and
\* has been running for longer than the cool-down
C4_Witness ==
    /\ last.op = "startSync"
    /\ last.kind = "existing"
    /\ last.returned.progress.phase # "fetching tokens"
    /\ now - last.returned.startTime > rateLimitMs
    /\ pipes[last.chainId] # <<>>

\* C5 as claimed: when startSync is accepted (no record, or a terminal
\* record past the cool-down), the record it has stored when it returns is
\* the one it returns: Running, phase 'initializing' (current 0, total 0),
\* startTime = now; and the pipeline has not got past its registry fetch.
C5_StoredRecordIsInitializing ==
    \A c \in Chains :
       (ReturnsFromStartSync(c) /\ last.kind = "started") =>
          /\ last.returned.status = "running"
          /\ last.returned.progress
                = [phase |-> "initializing", current |-> 0, total |-> 0]
          /\ last.returned.startTime = now
          /\ syncStatuses[c].status = "running"
          /\ syncStatuses[c].progress
                = [phase |-> "initializing", current |-> 0, total |-> 0]
          /\ syncStatuses[c].startTime = now
          /\ \E k \in DOMAIN pipes[c] : pipes[c][k].pc = "fetchTokens"

\* C5, amended: when startSync is accepted it returns a record that is
\* Running, phase 'initializing' (current 0, total 0), startTime = now; the
\* record stored when it returns is Running with the same startTime and no
\* endTime, result or error, but its progress is already 'fetching tokens'
\* (current 0, total 1), set by the part of performSync that runs before its
\* first await; the pipeline it launched is still waiting for the registry
\* fetch, so the caller never waits for the pipeline.
C5_AcceptedReturnsBeforeFetch ==
    \A c \in Chains :
       (ReturnsFromStartSync(c) /\ last.kind = "started") =>
          /\ \/ last.before = <<>>
             \/ /\ IsTerminal(last.before[1])
                /\ now - last.before[1].endTime >= rateLimitMs
          /\ last.returned.status = "running"
          /\ last.returned.progress
                = [phase |-> "initializing", current |-> 0, total |-> 0]
          /\ last.returned.startTime = now
          /\ DOMAIN last.returned
                = {"chainId", "status", "startTime", "progress",
                   "remainingTime"}
          /\ syncStatuses[c]
                = Merge(last.returned,
                        [progress |-> [phase |-> "fetching tokens",
                                       current |-> 0, total |-> 1]])
          /\ Len(pipes[c]) = 1
          /\ pipes[c][1].pc = "fetchTokens"
          /\ pipes[c][1].startTime = now

\* a sync was accepted over the record of a sync that failed
C5_Witness ==
    /\ last.op = "startSync"
    /\ last.kind = "started"
    /\ last.before # <<>>
    /\ last.before[1].status = "failed"
    /\ syncStatuses[last.chainId].progress.phase = "fetching tokens"

\* C6: every record has exactly one of the states running / completed /
\* failed, and a record that has left Running carries a result if and only
\* if it is Completed.
C6_TerminalStateExclusivity ==
    \A c \in DOMAIN syncStatuses :
       /\ syncStatuses[c].status \in {"running", "completed", "failed"}
       /\ IsTerminal(syncStatuses[c]) =>
             (("result" \in DOMAIN syncStatuses[c])
                 <=> syncStatuses[c].status = "completed")
       /\ syncStatuses[c].status = "failed" =>
             "result" \notin DOMAIN syncStatuses[c]

\* a chain whose earlier sync completed now has a failed record
C6_Witness ==
    \E c \in DOMAIN syncStatuses :
       /\ syncStatuses[c].status = "failed"
       /\ syncStatuses[c].startTime > Epoch
       /\ "result" \notin DOMAIN syncStatuses[c]

\* C7: a record is created Running; while it is Running it is only mutated
\* in place (same startTime) and may move once, to Completed or Failed; a
\* terminal record is never mutated, it can only be replaced, by an
\* accepted startSync, with a fresh Running record; and once a chain has a
\* record getSyncStatus never returns absent for it.
C7_StatusLifecycle ==
    [][\A c \in Chains :
          /\ Has(syncStatuses, c) =>
                /\ Has(syncStatuses', c)
                /\ getSyncStatus(syncStatuses', c, now') # <<>>
          /\ (~Has(syncStatuses, c) /\ Has(syncStatuses', c)) =>
                /\ IsStartSync(c) /\ last'.kind = "started"
                /\ syncStatuses'[c].status = "running"
          /\ (Has(syncStatuses, c) /\ Has(syncStatuses', c)
                /\ syncStatuses[c].status = "running"
                /\ syncStatuses'[c] # syncStatuses[c]) =>
                /\ syncStatuses'[c].startTime = syncStatuses[c].startTime
                /\ syncStatuses'[c].status
                      \in {"running", "completed", "failed"}
                /\ ~IsStartSync(c)
          /\ (Has(syncStatuses, c) /\ Has(syncStatuses', c)
                /\ IsTerminal(syncStatuses[c])
                /\ syncStatuses'[c] # syncStatuses[c]) =>
                /\ IsStartSync(c) /\ last'.kind = "started"
                /\ syncStatuses'[c].status = "running"
                /\ syncStatuses'[c].startTime = now
                /\ DOMAIN syncStatuses'[c]
                      = {"chainId", "status", "startTime", "progress",
                         "remainingTime"}]_vars

\* a completed record was replaced by the record of a sync that then failed
C7_Witness ==
    /\ last.op = "fetchTokens"
    /\ Has(syncStatuses, last.chainId)
    /\ syncStatuses[last.chainId].status = "failed"
    /\ syncStatuses[last.chainId].startTime >= Epoch + rateLimitMs

\* the registry answered with no token: an empty list, a non-success
\* response or a network error
EmptyChainResponse(response) ==
    \/ response.kind = "networkError"
    \/ response.kind = "notOk"
    \/ response.kind = "ok" /\ response.body = JsonArray(<<>>)

\* C8: when the registry returns an empty list, a non-success response or a
\* network error, the pipeline goes straight to Completed with all five
\* counters 0, an empty details list and duration >= 0; it has returned, so
\* it performs no storage check, local probe, migration or resolution, and
\* nothing is written to storage.
C8_EmptyChainCompletes ==
    [][\A c \in Chains :
          (last'.op = "fetchTokens" /\ last'.chainId = c
               /\ EmptyChainResponse(last'.response)) =>
             /\ syncStatuses'[c].status = "completed"
             /\ syncStatuses'[c].endTime = now
             /\ syncStatuses'[c].result.chainId = c
             /\ syncStatuses'[c].result.totalTokens = 0
             /\ syncStatuses'[c].result.existingImages = 0
             /\ syncStatuses'[c].result.migratedFromLocal = 0
             /\ syncStatuses'[c].result.downloadedImages = 0
             /\ syncStatuses'[c].result.failedDownloads = 0
             /\ syncStatuses'[c].result.details = <<>>
             /\ syncStatuses'[c].result.duration >= 0
             /\ syncStatuses'[c].result.duration
                   = now - syncStatuses[c].startTime
             /\ Len(pipes'[c]) = Len(pipes[c]) - 1
             /\ \A k \in DOMAIN pipes'[c] : pipes'[c][k] \in
                   {pipes[c][j] : j \in DOMAIN pipes[c]}
             /\ storage' = storage]_vars

\* a network error ended a sync that had waited for the registry for some
\* time, and the record is Completed with no tokens
C8_Witness ==
    /\ last.op = "fetchTokens"
    /\ last.response.kind = "networkError"
    /\ syncStatuses[last.chainId].status = "completed"
    /\ syncStatuses[last.chainId].result.duration > 0
    /\ syncStatuses[last.chainId].result.totalTokens = 0

\* the exception that the registry answer makes performSync throw, <<>>
\* when it throws none: null has no length, a token without an address has
\* no toLowerCase
Thrown(response) ==
    IF response.kind # "ok" THEN <<>>
    ELSE IF response.body.null THEN <<TypeErrorLength>>
    ELSE IF \E k \in DOMAIN response.body.items :
               response.body.items[k] = <<>>
    THEN <<TypeErrorToLowerCase>>
    ELSE <<>>

\* C9: when an exception escapes the sequential phases of a chain's
\* pipeline, the record becomes Failed with endTime set and error holding
\* the message of the exception, and the pipeline is over; a pipeline is
\* only ever launched by an accepted startSync call for that chain, so
\* nothing runs for a Failed chain until such a call (no automatic retry).
C9_EscapedExceptionFails ==
    [][\A c \in Chains :
          /\ (last'.op = "fetchTokens" /\ last'.chainId = c
                 /\ Thrown(last'.response) # <<>>) =>
                /\ syncStatuses'[c].status = "failed"
                /\ syncStatuses'[c].endTime = now
                /\ syncStatuses'[c].error = Thrown(last'.response)[1].message
                /\ syncStatuses'[c].startTime = syncStatuses[c].startTime
                /\ Len(pipes'[c]) = Len(pipes[c]) - 1
          /\ (Has(syncStatuses', c) /\ syncStatuses'[c].status = "failed") =>
                /\ pipes'[c] = <<>>
                /\ "endTime" \in DOMAIN syncStatuses'[c]
                /\ "error" \in DOMAIN syncStatuses'[c]
          /\ Len(pipes'[c]) > Len(pipes[c]) =>
                /\ IsStartSync(c)
                /\ last'.kind = "started"
                /\ Len(pipes'[c]) = Len(pipes[c]) + 1]_vars

\* a sync failed on a token without an address, after the storage check
\* had been announced
C9_Witness ==
    /\ last.op = "fetchTokens"
    /\ syncStatuses[last.chainId].status = "failed"
    /\ syncStatuses[last.chainId].error = TypeErrorToLowerCase.message
    /\ syncStatuses[last.chainId].progress.phase = CheckingStoragePhase
    /\ pipes[last.chainId] = <<>>

\* the details a sync of chain c has pushed so far: those of the invocation
\* in flight, or those of the result once it has completed
DetailsSoFar(ss, pp, c) ==
    IF pp[c] # <<>>
    THEN (IF "migrationResults" \in DOMAIN pp[c][1]
          THEN pp[c][1].migrationResults.details ELSE <<>>)
         \o (IF "downloadResults" \in DOMAIN pp[c][1]
             THEN pp[c][1].downloadResults.details ELSE <<>>)
    ELSE IF Has(ss, c) /\ "result" \in DOMAIN ss[c]
    THEN SelectSeq(ss[c].result.details, LAMBDA d : d.status # "exists")
    ELSE <<>>

\* how many 'failed' details the list holds for the address
FailedDetails(details, address) ==
    Cardinality({j \in DOMAIN details :
        details[j].address = address /\ details[j].status = "failed"})

\* The token of a migration callback or download iteration failed: no image
\* was written to storage for it.  (uploadSuccess is TRUE only in outcomes
\* where the bytes were obtained and the write succeeded: every failure of
\* a provider, of the image GET, of the local read or of the write has it
\* FALSE.)
TokenFailed(outcome) == ~outcome.uploadSuccess

\* C10: once the registry has delivered a non-empty token list, no outcome
\* of the per-token operations (storage check errors, local copies missing
\* or unreadable, providers throwing or absent, image GET failing, storage
\* writes failing) makes the sync Failed: every step leaves the record
\* Running or Completed, the pipeline ends exactly when the record is
\* Completed, and each failing token gets its own 'failed' detail.
C10_PerTokenFailuresNeverFailSync ==
    [][\A c \in Chains :
          /\ (last'.op \in {"bulkCheck", "localProbe", "migrate", "download"}
                 /\ last'.chainId = c) =>
                /\ syncStatuses'[c].status \in {"running", "completed"}
                /\ (pipes'[c] = <<>>) <=> (syncStatuses'[c].status = "completed")
                /\ syncStatuses'[c].status = "completed" =>
                      /\ syncStatuses'[c].result.totalTokens > 0
                      /\ Len(syncStatuses'[c].result.details)
                            = syncStatuses'[c].result.totalTokens
          /\ (last'.op = "migrate" /\ last'.chainId = c) =>
                \A j \in DOMAIN last'.batch :
                   FailedDetails(DetailsSoFar(syncStatuses', pipes', c),
                                 last'.batch[j].address)
                     = FailedDetails(DetailsSoFar(syncStatuses, pipes, c),
                                     last'.batch[j].address)
                       + Cardinality({i \in DOMAIN last'.batch :
                            /\ last'.batch[i].address = last'.batch[j].address
                            /\ TokenFailed(last'.outcomes[i])})
          /\ (last'.op = "download" /\ last'.chainId = c) =>
                FailedDetails(DetailsSoFar(syncStatuses', pipes', c),
                              last'.token.address)
                  = FailedDetails(DetailsSoFar(syncStatuses, pipes, c),
                                  last'.token.address)
                    + (IF TokenFailed(last'.outcome) THEN 1 ELSE 0)]_vars

\* a sync of two tokens completed although both failed, one in the
\* migration phase and one in the download phase after a provider threw
C10_Witness ==
    /\ last.op = "download"
    /\ last.outcome.providers[2] = ProviderThrows
    /\ syncStatuses[last.chainId].status = "completed"
    /\ syncStatuses[last.chainId].result.totalTokens = 2
    /\ syncStatuses[last.chainId].result.failedDownloads = 2
    /\ \E j \in DOMAIN syncStatuses[last.chainId].result.details :
          /\ syncStatuses[last.chainId].result.details[j].status = "failed"
          /\ "provider" \in
                DOMAIN syncStatuses[last.chainId].result.details[j]
          /\ syncStatuses[last.chainId].result.details[j].provider
                = "local-migration"

----------------------------------------------------------------------------
(* Partial failures inside the migration and download phases *)

\* the failed tally a sync of chain c has accumulated so far: that of the
\* invocation in flight, or failedDownloads of the result once it completed
FailedSoFar(ss, pp, c) ==
    IF pp[c] # <<>>
    THEN (IF "migrationResults" \in DOMAIN pp[c][1]
          THEN pp[c][1].migrationResults.failed ELSE 0)
         + (IF "downloadResults" \in DOMAIN pp[c][1]
            THEN pp[c][1].downloadResults.failed ELSE 0)
    ELSE IF Has(ss, c) /\ "result" \in DOMAIN ss[c]
    THEN ss[c].result.failedDownloads
    ELSE 0

\* the bytes of the token were obtained and only the storage write failed
MigrateWriteFailed(outcome) ==
    outcome.localImage # <<>> /\ ~outcome.uploadSuccess
DownloadWriteFailed(outcome) ==
    LET r == fetchImage(outcome.providers) IN
    /\ r # <<>>
    /\ ("url" \in DOMAIN r[1] => outcome.httpOk)
    /\ ~outcome.uploadSuccess

\* the last n elements of s
LastN(s, n) == SubSeq(s, Len(s) - n + 1, Len(s))

\* C11: in a migration batch, whatever subset of the storage writes fails
\* and in whatever order the callbacks settle, every token of the batch gets
\* exactly one detail of its own: 'migrated' (and its image is stored) when
\* its write succeeded, 'failed' when it did not; the failed tally grows by
\* the number of failing tokens, which is the number of induced write
\* failures when nothing else fails.  In the download phase the token of an
\* iteration is tagged 'downloaded' (and stored) or 'failed' by its own
\* outcome, the tally grows by one exactly for a failure, and the loop goes
\* on to the next token.  A completed result reports as failedDownloads the
\* number of 'failed' details.
C11_PartialBatchResilience ==
    [][\A c \in Chains :
          /\ (last'.op = "migrate" /\ last'.chainId = c) =>
                LET batch == last'.batch
                    out == last'.outcomes
                    before == DetailsSoFar(syncStatuses, pipes, c)
                    after == DetailsSoFar(syncStatuses', pipes', c)
                    added == LastN(after, Len(after) - Len(before))
                    F == {j \in DOMAIN batch : MigrateWriteFailed(out[j])}
                    Failing == {j \in DOMAIN batch : ~out[j].uploadSuccess}
                IN /\ Len(added) = Len(batch)
                   /\ SubSeq(after, 1, Len(before)) = before
                   /\ \A i \in DOMAIN added :
                         LET j == last'.order[i] IN
                         /\ added[i].address = batch[j].address
                         /\ added[i].status =
                               (IF out[j].uploadSuccess THEN "migrated"
                                ELSE "failed")
                         /\ out[j].uploadSuccess =>
                               StorageHas(storage', c, batch[j].address)
                   /\ FailedSoFar(syncStatuses', pipes', c)
                         = FailedSoFar(syncStatuses, pipes, c)
                             + Cardinality(Failing)
                   /\ (\A j \in DOMAIN batch : out[j].localImage # <<>>) =>
                         FailedSoFar(syncStatuses', pipes', c)
                            = FailedSoFar(syncStatuses, pipes, c)
                                + Cardinality(F)
          /\ (last'.op = "download" /\ last'.chainId = c) =>
                LET after == DetailsSoFar(syncStatuses', pipes', c)
                    ok == last'.outcome.uploadSuccess
                IN /\ Len(after)
                         = Len(DetailsSoFar(syncStatuses, pipes, c)) + 1
                   /\ after[Len(after)].address = last'.token.address
                   /\ after[Len(after)].status =
                         (IF ok THEN "downloaded" ELSE "failed")
                   /\ ok => StorageHas(storage', c, last'.token.address)
                   /\ DownloadWriteFailed(last'.outcome) => ~ok
                   /\ FailedSoFar(syncStatuses', pipes', c)
                         = FailedSoFar(syncStatuses, pipes, c)
                             + (IF ok THEN 0 ELSE 1)
                   /\ pipes[c][1].i + 1 < Len(pipes[c][1].stillMissingTokens)
                         => /\ pipes'[c] # <<>>
                            /\ pipes'[c][1].pc = "download"
                            /\ pipes'[c][1].i = pipes[c][1].i + 1
          /\ (Has(syncStatuses', c) /\ syncStatuses'[c].status = "completed")
                => LET r == syncStatuses'[c].result IN
                   r.failedDownloads
                      = Cardinality({j \in DOMAIN r.details :
                                        r.details[j].status = "failed"})]_vars

\* a migration batch of two tokens in which the write of the token that
\* settles first failed and the other token was migrated and stored
C11_Witness ==
    /\ last.op = "migrate"
    /\ Len(last.batch) = 2
    /\ MigrateWriteFailed(last.outcomes[last.order[1]])
    /\ last.outcomes[last.order[2]].uploadSuccess
    /\ StorageHas(storage, last.chainId, last.batch[last.order[2]].address)
    /\ ~StorageHas(storage, last.chainId, last.batch[last.order[1]].address)
    /\ FailedSoFar(syncStatuses, pipes, last.chainId) = 1

----------------------------------------------------------------------------
(* Repeated syncs of a chain *)

\* the step completes the running sync of chain c
CompletesSync(c) ==
    /\ Has(syncStatuses, c) /\ syncStatuses[c].status = "running"
    /\ syncStatuses'[c].status = "completed"

\* the result lists exactly the tokens the replaced sync listed
SameTokenList(result, before) ==
    /\ {result.details[j].address : j \in DOMAIN result.details}
          = before.addresses
    /\ result.totalTokens = before.totalTokens

\* everything was found in storage and nothing was transferred
NothingToDo(result) ==
    /\ result.existingImages = result.totalTokens
    /\ result.migratedFromLocal = 0
    /\ result.downloadedImages = 0

\* a startSync call that directly follows an accepted one is rate-limited
SecondStartRejected(c) ==
    (IsStartSync(c) /\ ReturnsFromStartSync(c) /\ last.kind = "started")
       => last'.kind = "rateLimited"

----------------------------------------------------------------------------
(* The storage gateway on its own: both back ends, driven with addresses   *)
(* in several letter cases.  storage is the S3 bucket, localStorage the    *)
(* directory tree under LOCAL_STORAGE_DIR.                                 *)

\* join(LOCAL_STORAGE_DIR, chainId.toString(), address.toLowerCase())
getLocalStoragePath(chainId, address) ==
    <<"local-storage", chainId, ToLowerCase(address)>>

\* A directory of the local back end: the image.<extension> files it holds
\* (each with its bytes) and the content of metadata.json (<<>> when the
\* file is missing).
LocalDir(ls, path) == {d \in ls : d.path = path}

\* getImageFromS3: the values the call may return (<<>> is null)
getImageFromS3(store, chainId, address) ==
    IF StorageHas(store, chainId, address)
    THEN {<<[buffer |-> o.body, extension |-> o.extension]>> :
             o \in {x \in store : x.key = StorageKey(chainId, address)}}
    ELSE {<<>>}

\* checkImageExistsInLocalStorage: readdir succeeds and lists an image file
checkImageExistsInLocalStorage(ls, chainId, address) ==
    \E d \in LocalDir(ls, getLocalStoragePath(chainId, address)) :
       d.images # {}

\* getImageFromLocalStorage: the values the call may return.  The extension
\* comes from metadata.json when it is there; the file read is the first
\* image.* entry readdir lists, and readdir promises no order.
getImageFromLocalStorage(ls, chainId, address) ==
    LET dirs == LocalDir(ls, getLocalStoragePath(chainId, address)) IN
    IF dirs = {} \/ \A d \in dirs : d.images = {}
    THEN {<<>>}
    ELSE UNION {{<<[buffer |-> f.body,
                    extension |-> IF d.metadata # <<>>
                                  THEN d.metadata[1].extension
                                  ELSE f.extension]>> : f \in d.images} :
                d \in dirs}

\* uploadImageToLocalStorage, failing at step failAt ("none": it succeeds).
\* mkdir, the write of image.<extension> and the write of metadata.json
\* happen in that order, and what was done before the failure stays.
uploadImageToLocalStorage(ls, chainId, address, imageBuffer, extension, metadata, failAt) ==
    LET path == getLocalStoragePath(chainId, address)
        old == IF LocalDir(ls, path) = {}
               THEN [path |-> path, images |-> {}, metadata |-> <<>>]
               ELSE CHOOSE d \in LocalDir(ls, path) : TRUE
        others == {d \in ls : d.path # path}
        written == {f \in old.images : f.extension # extension}
                      \cup {[extension |-> extension, body |-> imageBuffer]}
    IN IF failAt = "mkdir" THEN [ok |-> FALSE, ls |-> ls]
       ELSE IF failAt = "image"
       THEN [ok |-> FALSE, ls |-> others \cup {old}]
       ELSE IF failAt = "metadata"
       THEN [ok |-> FALSE,
             ls |-> others \cup {[old EXCEPT !.images = written]}]
       ELSE [ok |-> TRUE,
             ls |-> others \cup
                 {[path |-> path, images |-> written,
                   metadata |-> <<[extension |-> extension,
                                   provider |-> metadata.provider,
                                   originalUrl |-> metadata.originalUrl]>>]}]

\* checkImageExistsInStorage and getImageFromStorage in storage mode `mode`
checkImageExistsInStorage(mode, store, ls, chainId, address) ==
    IF mode = "s3" THEN StorageHas(store, chainId, address)
    ELSE checkImageExistsInLocalStorage(ls, chainId, address)
getImageFromStorage(mode, store, ls, chainId, address) ==
    IF mode = "s3" THEN getImageFromS3(store, chainId, address)
    ELSE getImageFromLocalStorage(ls, chainId, address)

\* the images held for (chainId, address): S3 objects, or image files
StoredImages(mode, store, ls, chainId, address) ==
    IF mode = "s3"
    THEN {[extension |-> o.extension, body |-> o.body] :
             o \in {x \in store : x.key.chainId = chainId
                       /\ ToLowerCase(x.key.address) = ToLowerCase(address)}}
    ELSE UNION {d.images :
             d \in {x \in ls : x.path[2] = chainId
                       /\ ToLowerCase(x.path[3]) = ToLowerCase(address)}}

\* the inputs the gateway is driven with
GatewayAddresses == {Addr1, ToLowerCase(Addr1), <<"0", "x", "a", "B">>}
GatewayBodies == {"bytes", "other bytes"}
GatewayExtensions == {"png", "jpg"}
GatewayMetadata == [provider |-> "coingecko", originalUrl |-> <<"unknown">>]

\* true when the two addresses differ at most in letter case
SameAddress(a, b) == ToLowerCase(a) = ToLowerCase(b)

\* uploadImageToStorage in S3 mode; sendOk is whether the PutObject succeeds
S3Upload(c, a, body, ext, sendOk) ==
    /\ storage' = IF sendOk
                  THEN StoragePut(storage, c, a, body, ext, GatewayMetadata)
                  ELSE storage
    /\ last' = [op |-> "put", mode |-> "s3", chainId |-> c, address |-> a,
                body |-> body, extension |-> ext, ok |-> sendOk]
    /\ UNCHANGED <<now, ticks, syncStatuses, pipes, replaced, localStorage,
                   resolution>>

\* uploadImageToStorage in local mode
LocalUpload(c, a, body, ext, failAt) ==
    LET r == uploadImageToLocalStorage(localStorage, c, a, body, ext,
                                       GatewayMetadata, failAt) IN
    /\ localStorage' = r.ls
    /\ last' = [op |-> "put", mode |-> "local", chainId |-> c,
                address |-> a, body |-> body, extension |-> ext,
                ok |-> r.ok]
    /\ UNCHANGED <<now, ticks, syncStatuses, pipes, replaced, storage,
                   resolution>>

GatewayNext ==
    \/ \E c \in DrivenChains, a \in GatewayAddresses, body \in GatewayBodies,
          ext \in GatewayExtensions, sendOk \in BOOLEAN :
          S3Upload(c, a, body, ext, sendOk)
    \/ \E c \in DrivenChains, a \in GatewayAddresses, body \in GatewayBodies,
          ext \in GatewayExtensions,
          failAt \in {"none", "mkdir", "image", "metadata"} :
          LocalUpload(c, a, body, ext, failAt)

StorageSpec == Init /\ [][GatewayNext]_vars

\* C13: in either back end, exists and get give the same answer for two
\* addresses that differ only in letter case; a put that succeeded under
\* one casing is seen by exists under every casing, get under every casing
\* returns the image just put, and the put has overwritten: exactly one
\* image is stored for the address.
C13_StorageCaseInsensitive ==
    \A mode \in {"s3", "local"}, c \in DrivenChains :
       \A a, b \in GatewayAddresses :
          SameAddress(a, b) =>
             /\ checkImageExistsInStorage(mode, storage, localStorage, c, a)
                   = checkImageExistsInStorage(mode, storage, localStorage,
                                               c, b)
             /\ getImageFromStorage(mode, storage, localStorage, c, a)
                   = getImageFromStorage(mode, storage, localStorage, c, b)
             /\ (last.op = "put" /\ last.ok /\ last.mode = mode
                   /\ last.chainId = c /\ last.address = a) =>
                   /\ checkImageExistsInStorage(mode, storage, localStorage,
                                                c, b)
                   /\ getImageFromStorage(mode, storage, localStorage, c, b)
                         = {<<[buffer |-> last.body,
                               extension |-> last.extension]>>}
                   /\ StoredImages(mode, storage, localStorage, c, b)
                         = {[extension |-> last.extension,
                             body |-> last.body]}

----------------------------------------------------------------------------
(* One address in two letter cases in the token list *)

\* no two entries of the sequence carry the same address
DistinctAddresses(entries) ==
    \A i, j \in DOMAIN entries :
       entries[i].address = entries[j].address => i = j

\* C14: the bulk existence check never reports the same address as two
\* missing entries, and a completed sync has counted and processed every
\* address once: its details hold one entry per address and totalTokens is
\* the number of different addresses.
C14_NoDuplicateMissingEntries ==
    \A c \in Chains :
       /\ (last.op = "bulkCheck" /\ last.chainId = c) =>
             DistinctAddresses(
                 SelectSeq(ExistenceChecks(storage, last.tokenList,
                                           last.errors),
                           LAMBDA check : ~check.exists))
       /\ (Has(syncStatuses, c) /\ syncStatuses[c].status = "completed") =>
             /\ DistinctAddresses(syncStatuses[c].result.details)
             /\ syncStatuses[c].result.totalTokens =
                   Cardinality({syncStatuses[c].result.details[j].address :
                       j \in DOMAIN syncStatuses[c].result.details})

----------------------------------------------------------------------------
(* The provider chain resolver on its own: one fetchImage(chainId, Addr1)  *)
(* call, with every provider settling separately and in any order.         *)
(* resolution.levels is the stack of fan-outs in flight: the top-level one *)
(* of fetchImage and, above it, the one fetchImageForUnderlying runs for   *)
(* the pendle-pt-underlying provider.  A slot is the promise the map       *)
(* callback of one provider returns.                                       *)

PtName == "pendle-pt-underlying"

\* at most MaxAvailable of the direct providers are configured (available)
MaxAvailable == 2
\* fan-outs are not nested deeper than MaxDepth (caps a runaway recursion)
MaxDepth == 3

\* a variant of fetchImageForUnderlying that does not filter the provider
providersForUnderlying_NoFilter == Providers

\* fetchImageForUnderlying: the providers of the delegated fan-out
providersForUnderlying == SelectSeq(Providers, LAMBDA p : p # PtName)

\* a variant that calls fetchImage without asking isAvailable()
StartProvider_AlwaysInvokes(name, available) ==
    IF name = PtName THEN [st |-> "pending", pc |-> "isPT", calls |-> 1]
    ELSE [st |-> "pending", pc |-> "fetch", calls |-> 1]

\* The map callback of one provider up to its first await: an unavailable
\* provider yields null at once and is not called; an available one has its
\* fetchImage called (calls counts the calls) and is awaited.
StartProvider(name, available) ==
    IF ~available
    THEN [st |-> "settled", how |-> "unavailable", result |-> <<>>,
          calls |-> 0]
    ELSE IF name = PtName
    THEN [st |-> "pending", pc |-> "isPT", calls |-> 1]
    ELSE [st |-> "pending", pc |-> "fetch", calls |-> 1]

\* providerPromises: the fan-out over `providers` for `address`
FanOut(providers, address, avail) ==
    [address |-> address,
     providers |-> providers,
     slots |-> [k \in DOMAIN providers |->
                   StartProvider(providers[k], avail[providers[k]])]]

\* the slot once its promise has resolved
Settled(slot, how, result) ==
    [st |-> "settled", how |-> how, result |-> result, calls |-> slot.calls]

\* Promise.all(providerPromises) has resolved
AllSettled(level) ==
    \A k \in DOMAIN level.slots : level.slots[k].st = "settled"

\* the results array
Results(level) == [k \in DOMAIN level.slots |-> level.slots[k].result]

\* what a direct provider returns when it knows the token
FoundImage(name, address) ==
    IF name = "local" THEN LocalImage(1, address)
    ELSE RemoteImage(name, address)

\* the outcomes of one direct provider's fetchImage
DirectOutcomes(name, address) ==
    {ProviderAbsent, ProviderThrows,
     ProviderFound(FoundImage(name, address))}

\* the configurations: which providers are available.  The derived
\* provider is, its callback being set by the constructor.
ResolverAvailabilities ==
    {[k \in DOMAIN Providers |-> Providers[k] = PtName \/ k \in S] :
        S \in {X \in SUBSET {k \in DOMAIN Providers : Providers[k] # PtName} :
                  Cardinality(X) <= MaxAvailable}}

\* availability by provider name
AvailableByName(av) ==
    [name \in {Providers[k] : k \in DOMAIN Providers} |->
        \E k \in DOMAIN Providers : Providers[k] = name /\ av[k]]

\* the stored logo of the underlying asset, when there is one
UnderlyingLogo ==
    StoragePut({}, 1, Addr2, "bytes", "png", GatewayMetadata)

ResolverInit ==
    /\ now = Epoch
    /\ ticks = 0
    /\ syncStatuses = EmptyMap
    /\ pipes = [c \in Chains |-> <<>>]
    /\ storage \in {{}, UnderlyingLogo}
    /\ last = [op |-> "init"]
    /\ replaced = [c \in Chains |-> <<>>]
    /\ localStorage = {}
    /\ \E av \in ResolverAvailabilities :
          resolution = [levels |-> <<>>,
                        avail |-> AvailableByName(av),
                        order |-> <<>>,
                        returned |-> <<>>,
                        deepest |-> 0]

resolverFrame ==
    <<now, ticks, syncStatuses, pipes, storage, last, replaced, localStorage>>

\* the levels with slot k of level n replaced
WithSlot(levels, n, k, slot) ==
    [levels EXCEPT ![n] = [@ EXCEPT !.slots = [@ EXCEPT ![k] = slot]]]

\* the settle order of the top-level fan-out, after slot k of level n settled
OrderAfter(n, k) ==
    IF n = 1
    THEN Append(resolution.order, resolution.levels[1].providers[k])
    ELSE resolution.order

\* fetchImage(1, Addr1) is called
ResolverCall ==
    /\ "avail" \in DOMAIN resolution
    /\ resolution.levels = <<>>
    /\ resolution.returned = <<>>
    /\ resolution' = [resolution EXCEPT
          !.levels = <<FanOut(Providers, Addr1, resolution.avail)>>,
          !.deepest = 1]
    /\ UNCHANGED resolverFrame

\* the fetchImage of a direct provider settles
DirectSettles(n, k) ==
    /\ resolution.levels[n].slots[k].st = "pending"
    /\ resolution.levels[n].slots[k].pc = "fetch"
    /\ LET level == resolution.levels[n] IN
       \E o \in DirectOutcomes(level.providers[k], level.address) :
          resolution' = [resolution EXCEPT
             !.levels = WithSlot(@, n, k,
                 Settled(level.slots[k],
                         IF o.throws THEN "threw"
                         ELSE IF o.result = <<>> THEN "absent" ELSE "found",
                         ProviderPromise(o))),
             !.order = OrderAfter(n, k)]
    /\ UNCHANGED resolverFrame

\* PendlePTUnderlyingProvider.fetchImage, step 1: isPendlePT resolves
PtChecksToken(n, k) ==
    /\ resolution.levels[n].slots[k].st = "pending"
    /\ resolution.levels[n].slots[k].pc = "isPT"
    /\ \E isPT \in BOOLEAN :
          resolution' = [resolution EXCEPT
             !.levels = WithSlot(@, n, k,
                 IF isPT
                 THEN [resolution.levels[n].slots[k] EXCEPT
                          !.pc = "getUnderlying"]
                 ELSE Settled(resolution.levels[n].slots[k], "absent", <<>>)),
             !.order = IF isPT THEN @ ELSE OrderAfter(n, k)]
    /\ UNCHANGED resolverFrame

\* step 2: getUnderlyingAssetAddress resolves, to null or to an address
PtReadsUnderlying(n, k) ==
    /\ resolution.levels[n].slots[k].st = "pending"
    /\ resolution.levels[n].slots[k].pc = "getUnderlying"
    /\ \E underlyingAddress \in {<<>>, <<Addr2>>} :
          resolution' = [resolution EXCEPT
             !.levels = WithSlot(@, n, k,
                 IF underlyingAddress = <<>>
                 THEN Settled(resolution.levels[n].slots[k], "absent", <<>>)
                 ELSE [st |-> "pending", pc |-> "s3",
                       calls |-> resolution.levels[n].slots[k].calls,
                       underlyingAddress |-> underlyingAddress[1]]),
             !.order = IF underlyingAddress = <<>> THEN OrderAfter(n, k)
                       ELSE @]
    /\ UNCHANGED resolverFrame

\* a variant that also passes on a url for the stored logo
StoredLogoResult_WithUrl(existingImage) ==
    [buffer |-> existingImage.buffer,
     url |-> <<"s3", "image">>,
     provider |-> PtName,
     extension |-> existingImage.extension]

\* the ImageResult built from the stored logo of the underlying asset
StoredLogoResult(existingImage) ==
    [buffer |-> existingImage.buffer,
     provider |-> PtName,
     extension |-> existingImage.extension]

\* a variant that passes the result on under the name of its provider
RetaggedResult_KeepsProvider(result) == result

\* the ImageResult built from the result of the delegated fan-out
RetaggedResult(result) == Merge(result, [provider |-> PtName])

\* step 3: getImageFromS3 resolves (to null when the read fails); a stored
\* logo is returned, otherwise step 4 starts the delegated fan-out
PtChecksStorage(n, k) ==
    /\ resolution.levels[n].slots[k].st = "pending"
    /\ resolution.levels[n].slots[k].pc = "s3"
    /\ LET slot == resolution.levels[n].slots[k] IN
       \E existingImage \in
             getImageFromS3(storage, 1, slot.underlyingAddress) \cup {<<>>} :
          IF existingImage # <<>>
          THEN resolution' = [resolution EXCEPT
                  !.levels = WithSlot(@, n, k,
                      Settled(slot, "found",
                              <<StoredLogoResult(existingImage[1])>>)),
                  !.order = OrderAfter(n, k)]
          ELSE /\ Len(resolution.levels) < MaxDepth
               /\ n = Len(resolution.levels)
               /\ resolution' = [resolution EXCEPT
                     !.levels = Append(
                         WithSlot(@, n, k, [slot EXCEPT !.pc = "delegated"]),
                         FanOut(providersForUnderlying,
                                slot.underlyingAddress, resolution.avail)),
                     !.deepest = Max(@, Len(resolution.levels) + 1)]
    /\ UNCHANGED resolverFrame

\* fetchImageForUnderlying returns: every provider of the delegated fan-out
\* has settled, and the derived provider settles with the re-tagged result
DelegatedReturns(n, k) ==
    /\ n + 1 = Len(resolution.levels)
    /\ resolution.levels[n].slots[k].st = "pending"
    /\ resolution.levels[n].slots[k].pc = "delegated"
    /\ AllSettled(resolution.levels[n + 1])
    /\ LET result == FirstResult(Results(resolution.levels[n + 1])) IN
       resolution' = [resolution EXCEPT
          !.levels = WithSlot(SubSeq(@, 1, n), n, k,
              IF result = <<>>
              THEN Settled(resolution.levels[n].slots[k], "absent", <<>>)
              ELSE Settled(resolution.levels[n].slots[k], "found",
                           <<RetaggedResult(result[1])>>)),
          !.order = OrderAfter(n, k)]
    /\ UNCHANGED resolverFrame

\* a variant that returns as soon as the first provider has produced a result
ResolverReturns_OnFirstResult ==
    /\ Len(resolution.levels) >= 1
    /\ resolution.returned = <<>>
    /\ resolution.levels[1].slots[1].st = "settled"
    /\ resolution.levels[1].slots[1].result # <<>>
    /\ resolution' = [resolution EXCEPT
          !.returned = <<resolution.levels[1].slots[1].result>>]
    /\ UNCHANGED resolverFrame

\* fetchImage returns: Promise.all has resolved and the results are scanned
ResolverReturns ==
    /\ Len(resolution.levels) = 1
    /\ resolution.returned = <<>>
    /\ AllSettled(resolution.levels[1])
    /\ resolution' = [resolution EXCEPT
          !.returned = <<FirstResult(Results(resolution.levels[1]))>>]
    /\ UNCHANGED resolverFrame

ResolverNext ==
    \/ ResolverCall
    \/ \E n \in DOMAIN resolution.levels :
          \E k \in DOMAIN resolution.levels[n].slots : DirectSettles(n, k)
    \/ \E n \in DOMAIN resolution.levels :
          \E k \in DOMAIN resolution.levels[n].slots : PtChecksToken(n, k)
    \/ \E n \in DOMAIN resolution.levels :
          \E k \in DOMAIN resolution.levels[n].slots : PtReadsUnderlying(n, k)
    \/ \E n \in DOMAIN resolution.levels :
          \E k \in DOMAIN resolution.levels[n].slots : PtChecksStorage(n, k)
    \/ \E n \in DOMAIN resolution.levels :
          \E k \in DOMAIN resolution.levels[n].slots : DelegatedReturns(n, k)
    \/ ResolverReturns

ResolverSpec == ResolverInit /\ [][ResolverNext]_vars

----------------------------------------------------------------------------
(* Properties of the resolver *)

\* fetchImage has returned
Returned == "returned" \in DOMAIN resolution /\ resolution.returned # <<>>

\* the slots of the top-level fan-out whose provider produced an image
Producers ==
    {k \in DOMAIN resolution.levels[1].slots :
        resolution.levels[1].slots[k].how = "found"}

\* the position in the settle order of the top-level fan-out
SettledAt(name) ==
    CHOOSE i \in DOMAIN resolution.order : resolution.order[i] = name

\* C15: whatever the order in which the providers settle, fetchImage
\* returns the result of the earliest-registered provider that produced an
\* image (the result carries that provider's name), also when a provider
\* registered later settled before it, and returns absent exactly when no
\* provider produced an image.
C15_ProviderPriority ==
    Returned =>
       LET slots == resolution.levels[1].slots
           value == resolution.returned[1]
       IN /\ (value = <<>>) <=> (Producers = {})
          /\ Producers # {} =>
                LET first == CHOOSE k \in Producers :
                                 \A j \in Producers : k <= j
                IN /\ value = slots[first].result
                   /\ value[1].provider = Providers[first]
                   /\ \A j \in DOMAIN slots :
                         j < first => slots[j].result = <<>>

\* coingecko answered with an image before the local provider did, and the
\* local provider's image was returned
C15_Witness ==
    /\ Returned
    /\ resolution.levels[1].slots[1].how = "found"
    /\ resolution.levels[1].slots[2].how = "found"
    /\ SettledAt("coingecko") < SettledAt("local")
    /\ resolution.returned[1] # <<>>
    /\ resolution.returned[1][1].provider = "local"
    /\ "buffer" \in DOMAIN resolution.returned[1][1]

\* the available providers all had fetchImage called exactly once
AllInvoked(level) ==
    \A k \in DOMAIN level.slots :
       resolution.avail[level.providers[k]] => level.slots[k].calls = 1

\* C16: a provider whose fetchImage throws settles as absent, in either
\* fan-out, and every available provider has been invoked all the same; when
\* fetchImage returns (it does not throw) the value is what the providers
\* that did not throw decide: the image of the earliest-registered provider
\* that produced one, whether registered before or after the one that
\* threw, or absent when none did.
C16_FanOutFaultTolerance ==
    "avail" \in DOMAIN resolution =>
       /\ \A n \in DOMAIN resolution.levels :
             /\ AllInvoked(resolution.levels[n])
             /\ \A k \in DOMAIN resolution.levels[n].slots :
                   LET slot == resolution.levels[n].slots[k] IN
                   (slot.st = "settled" /\ slot.how = "threw") =>
                      slot.result = <<>>
       /\ Returned =>
             LET slots == resolution.levels[1].slots
                 others == {k \in DOMAIN slots : slots[k].how # "threw"}
                 found == {k \in others : slots[k].result # <<>>}
                 value == resolution.returned[1]
             IN IF found = {} THEN value = <<>>
                ELSE /\ value # <<>>
                     /\ \E k \in found :
                           /\ \A j \in found : k <= j
                           /\ value = slots[k].result

\* the local provider threw before the others settled, and the image of
\* coingecko, registered after it, was returned
C16_Witness ==
    /\ Returned
    /\ resolution.levels[1].slots[1].how = "threw"
    /\ resolution.order[1] = "local"
    /\ resolution.returned[1] # <<>>
    /\ resolution.returned[1][1].provider = "coingecko"

\* C17: in the top-level fan-out and in the delegated one, a provider whose
\* isAvailable() is false never has fetchImage called and its slot is
\* absent from the start.
C17_UnavailableNeverInvoked ==
    "avail" \in DOMAIN resolution =>
       \A n \in DOMAIN resolution.levels :
          \A k \in DOMAIN resolution.levels[n].slots :
             LET level == resolution.levels[n] IN
             ~resolution.avail[level.providers[k]] =>
                /\ level.slots[k].calls = 0
                /\ level.slots[k].st = "settled"
                /\ level.slots[k].how = "unavailable"
                /\ level.slots[k].result = <<>>

\* the delegated fan-out is in flight, has left the unavailable local
\* provider alone and has an image from coingecko
C17_Witness ==
    /\ Len(resolution.levels) = 2
    /\ ~resolution.avail["local"]
    /\ resolution.levels[2].slots[1].calls = 0
    /\ resolution.levels[2].slots[2].calls = 1
    /\ resolution.levels[2].slots[2].st = "settled"
    /\ resolution.levels[2].slots[2].how = "found"

\* C18: in the top-level fan-out the fetchImage of the derived
\* (pendle-pt-underlying) provider has been started only if every other
\* registered provider has already settled as absent.
C18_DerivedProviderStartsLast ==
    ("avail" \in DOMAIN resolution /\ resolution.levels # <<>>) =>
       LET level == resolution.levels[1] IN
       \A k \in DOMAIN level.slots :
          (level.providers[k] = PtName /\ level.slots[k].calls > 0) =>
             \A j \in DOMAIN level.slots :
                j # k => /\ level.slots[j].st = "settled"
                         /\ level.slots[j].result = <<>>

\* how often fetchImage of the derived provider has been called in the
\* fan-outs in flight
DerivedCalls ==
    LET n == Len(resolution.levels)
        at(i) == {k \in DOMAIN resolution.levels[i].slots :
                     /\ resolution.levels[i].providers[k] = PtName
                     /\ resolution.levels[i].slots[k].calls > 0}
    IN Cardinality({<<i, k>> \in (1..n) \X (DOMAIN Providers) :
                       k \in at(i)})

\* the value is an image a direct provider produced for the address,
\* possibly re-tagged by the derived provider
FromDirectProvider(value, address) ==
    \E k \in DOMAIN Providers :
       /\ Providers[k] # PtName
       /\ \/ value = FoundImage(Providers[k], address)
          \/ value = RetaggedResult(FoundImage(Providers[k], address))

\* non-reentrance, at most one invocation, nesting depth and progress
NonReentrant ==
    /\ Len(resolution.levels) <= 2
    /\ resolution.deepest <= 2
    /\ \A n \in DOMAIN resolution.levels :
          n > 1 => \A k \in DOMAIN resolution.levels[n].providers :
                      resolution.levels[n].providers[k] # PtName
    /\ DerivedCalls <= 1
    /\ Returned \/ ENABLED ResolverNext

----------------------------------------------------------------------------
(* Download failure *)

\* the resolver yielded a URL for the token and the GET of that URL did not
\* deliver the bytes (non-success response or network error)
UrlDownloadFailed(outcome) ==
    LET imageResult == fetchImage(outcome.providers) IN
    /\ imageResult # <<>>
    /\ "buffer" \notin DOMAIN imageResult[1]
    /\ "url" \in DOMAIN imageResult[1]
    /\ ~outcome.httpOk

\* C20: in the download phase, when the resolver yields a URL and the GET of
\* that URL returns a non-success response or fails with a network error, the
\* token is recorded as 'failed', the detail entry pushed for it carries no
\* provider, and nothing is written to storage.
C20_DownloadFailureCreditsNoProvider ==
    [][\A c \in Chains :
          (last'.op = "download" /\ last'.chainId = c
              /\ UrlDownloadFailed(last'.outcome)) =>
             LET before == DetailsSoFar(syncStatuses, pipes, c)
                 after == DetailsSoFar(syncStatuses', pipes', c)
             IN /\ Len(after) = Len(before) + 1
                /\ after[Len(after)].address = last'.token.address
                /\ after[Len(after)].status = "failed"
                /\ "provider" \notin DOMAIN after[Len(after)]
                /\ storage' = storage]_vars

\* C20, as the code has it: such a token is recorded as 'failed', the detail
\* entry pushed for it names the provider whose URL could not be downloaded,
\* and nothing is written to storage.
C20_DownloadFailureNamesProvider ==
    [][\A c \in Chains :
          (last'.op = "download" /\ last'.chainId = c
              /\ UrlDownloadFailed(last'.outcome)) =>
             LET before == DetailsSoFar(syncStatuses, pipes, c)
                 after == DetailsSoFar(syncStatuses', pipes', c)
             IN /\ Len(after) = Len(before) + 1
                /\ SubSeq(after, 1, Len(before)) = before
                /\ after[Len(after)].address = last'.token.address
                /\ after[Len(after)].status = "failed"
                /\ "provider" \in DOMAIN after[Len(after)]
                /\ after[Len(after)].provider
                      = fetchImage(last'.outcome.providers)[1].provider
                /\ storage' = storage]_vars

\* a download whose GET failed has just been recorded, and nothing is stored
\* for the token
C20_Witness ==
    /\ last.op = "download"
    /\ UrlDownloadFailed(last.outcome)
    /\ ~StorageHas(storage, last.token.chainId, last.token.address)
    /\ LET details == DetailsSoFar(syncStatuses, pipes, last.chainId) IN
          /\ details # <<>>
          /\ details[Len(details)].status = "failed"
          /\ details[Len(details)].address = last.token.address
          /\ "provider" \in DOMAIN details[Len(details)]

----------------------------------------------------------------------------
(* Order of the phases *)

PipelineOps == {"fetchTokens", "bulkCheck", "localProbe", "migrate", "download"}

\* the position of an await of performSync in the order of the phases
PcRank(pc) ==
    CASE pc = "fetchTokens" -> 1
      [] pc = "bulkCheck" -> 2
      [] pc = "localProbe" -> 3
      [] pc = "migrate" -> 4
      [] pc = "download" -> 5
      [] pc = "done" -> 6

\* the position of a reported progress phase in the order of the phases
PhaseRank(phase) ==
    CASE phase = "initializing" -> 0
      [] phase = "fetching tokens" -> 1
      [] phase = CheckingStoragePhase -> 2
      [] phase = "checking local source images" -> 3
      [] phase = "migrating local source images" -> 4
      [] phase = "downloading missing images" -> 5
      [] phase = "completed" -> 6

\* every operation of the phases before the one invocation p waits in has
\* settled: each list a phase hands on is complete
EarlierPhasesSettled(p) ==
    /\ PcRank(p.pc) >= 2 => Len(p.tokenList) = Len(p.tokens)
    /\ PcRank(p.pc) >= 3 =>
          /\ Len(p.existenceChecks) = Len(p.tokenList)
          /\ p.existingInStorageCount + Len(p.missingFromStorage)
                = Len(p.existenceChecks)
    /\ PcRank(p.pc) >= 4 =>
          Len(p.hasLocalImages) + Len(p.stillMissingTokens)
             = Len(p.missingFromStorage)
    /\ p.pc = "migrate" =>
          /\ Len(p.migrationResults.details) = p.i
          /\ "downloadResults" \notin DOMAIN p
    /\ p.pc = "download" =>
          /\ Len(p.migrationResults.details) = Len(p.hasLocalImages)
          /\ p.migrationResults.migrated + p.migrationResults.failed
                = Len(p.hasLocalImages)
          /\ Len(p.downloadResults.details) = p.i

\* C21: within one chain's pipeline the phases run strictly in the order
\* fetch tokens, bulk storage check, local-copy probe, migration, download,
\* finalize.  An operation of a phase settles only in an invocation that
\* waits in that phase, with every operation of the earlier phases settled
\* (at a download, every has-local token has its migration outcome); the
\* invocation then stays in the phase or moves to a later one; and the
\* progress phase the record reports is the phase the invocation is in and
\* only moves forward during a run.
C21_PhasesStrictlySequential ==
    [][\A c \in Chains :
          /\ (last'.op \in PipelineOps /\ last'.chainId = c) =>
                /\ Len(pipes[c]) = 1
                /\ pipes[c][1].pc = last'.op
                /\ EarlierPhasesSettled(pipes[c][1])
                /\ Len(pipes'[c]) <= 1
                /\ pipes'[c] # <<>> =>
                      /\ PcRank(pipes'[c][1].pc) >= PcRank(pipes[c][1].pc)
                      /\ EarlierPhasesSettled(pipes'[c][1])
                      /\ PhaseRank(syncStatuses'[c].progress.phase)
                            = PcRank(pipes'[c][1].pc)
          /\ (Has(syncStatuses, c)
                 /\ ~(IsStartSync(c) /\ last'.kind = "started")) =>
                /\ Has(syncStatuses', c)
                /\ PhaseRank(syncStatuses'[c].progress.phase)
                      >= PhaseRank(syncStatuses[c].progress.phase)]_vars

\* a sync went through migration and then download, and has completed
C21_Witness ==
    /\ last.op = "download"
    /\ syncStatuses[last.chainId].status = "completed"
    /\ syncStatuses[last.chainId].progress.phase = "completed"
    /\ syncStatuses[last.chainId].result.migratedFromLocal = 1
    /\ syncStatuses[last.chainId].result.downloadedImages = 1

----------------------------------------------------------------------------
(* The service behind its HTTP boundary: the endpoints of the app, the     *)
(* status queries of SyncService, and syncs of several chains at once.     *)
(* A path parameter is a sequence of one-character strings.                *)

\* the clock advances at most ServiceMaxTicks times
ServiceMaxTicks == 2

\* the chain ids the service is asked about
ServiceChains == Chains \cup {0}

IsDigit(ch) == ch \in {"0", "1", "2", "3", "4", "5", "6", "7", "8", "9"}

DigitValue(ch) ==
    CASE ch = "0" -> 0 [] ch = "1" -> 1 [] ch = "2" -> 2 [] ch = "3" -> 3
      [] ch = "4" -> 4 [] ch = "5" -> 5 [] ch = "6" -> 6 [] ch = "7" -> 7
      [] ch = "8" -> 8 [] ch = "9" -> 9

\* the value of a sequence of decimal digits
RECURSIVE DigitsValue(_)
DigitsValue(ds) ==
    IF ds = <<>> THEN 0
    ELSE 10 * DigitsValue(SubSeq(ds, 1, Len(ds) - 1)) + DigitValue(ds[Len(ds)])

AllDigits(s) == \A i \in DOMAIN s : IsDigit(s[i])

\* the position of the first "." of s, 0 when there is none
DotAt(s) ==
    IF \E i \in DOMAIN s : s[i] = "."
    THEN CHOOSE i \in DOMAIN s : s[i] = "." /\ \A j \in 1..(i - 1) : s[j] # "."
    ELSE 0

NaN == [nan |-> TRUE, negative |-> FALSE, whole |-> 0, fraction |-> 0]

\* Number(val) for a decimal literal: an optional sign, digits, an optional
\* "." with digits.  The empty string is 0; any other text is NaN.  The
\* number is sign, whole part and the value of its fraction digits.
Number(val) ==
    LET signed == val # <<>> /\ val[1] \in {"-", "+"}
        body == IF signed THEN Tail(val) ELSE val
        dot == DotAt(body)
        whole == IF dot = 0 THEN body ELSE SubSeq(body, 1, dot - 1)
        fraction == IF dot = 0 THEN <<>> ELSE SubSeq(body, dot + 1, Len(body))
    IN IF val = <<>> THEN [NaN EXCEPT !.nan = FALSE]
       ELSE IF body = <<>> \/ body = <<".">> \/ ~AllDigits(whole)
                \/ ~AllDigits(fraction)
       THEN NaN
       ELSE [nan |-> FALSE,
             negative |-> signed /\ val[1] = "-",
             whole |-> DigitsValue(whole),
             fraction |-> DigitsValue(fraction)]

isNaN(num) == num.nan
NumberIsInteger(num) == ~num.nan /\ num.fraction = 0
LessThanZero(num) ==
    ~num.nan /\ num.negative /\ (num.whole > 0 \/ num.fraction > 0)

\* the chainId transform of paramsSchema and syncParamsSchema: <<>> when it
\* throws, else <<the number>>
ParseChainId(val) ==
    LET num == Number(val) IN
    IF isNaN(num) \/ ~NumberIsInteger(num) \/ LessThanZero(num)
    THEN <<>>
    ELSE <<num.whole>>

\* the path values the endpoints are called with
ChainIdParams ==
    {<<"1">>, <<"0">>, <<"-", "1">>, <<"1", ".", "5">>, <<"a", "b", "c">>}

\* the token lists the registry answers with in this specification: chain 0
\* is not a chain the registry knows
ServiceResponses(c) ==
    IF c = 0 THEN {[kind |-> "notOk"]}
    ELSE {[kind |-> "networkError"],
          [kind |-> "ok", body |-> JsonArray(<<Addr1>>)]}

ServiceInit ==
    /\ now = Epoch
    /\ ticks = 0
    /\ syncStatuses = EmptyMap
    /\ pipes = [c \in ServiceChains |-> <<>>]
    /\ storage = {}
    /\ last = [op |-> "init"]
    /\ replaced = [c \in ServiceChains |-> <<>>]
    /\ localStorage = {}
    /\ resolution = [levels |-> <<>>]

ServiceTick(d) ==
    /\ ticks < ServiceMaxTicks
    /\ Tick(d)

ServiceFetchTokens(c, k) ==
    /\ FetchTokensSettles(c, k)
    /\ last'.response \in ServiceResponses(c)

\* a variant that asks only whether a finished sync is inside its window
getRateLimitInfo_IgnoresRunning(ss, chainId, t) ==
    LET rateLimitCheck == checkRateLimit_IgnoresRunning(ss, chainId, t)
        remainingTime == calculateRemainingTime(ss, chainId, t)
    IN IF rateLimitCheck # <<>>
       THEN [canSync |-> FALSE, remainingTime |-> remainingTime,
             message |-> rateLimitCheck[1].message]
       ELSE [canSync |-> TRUE, remainingTime |-> remainingTime,
             message |-> <<"Can sync immediately.">>]

\* SyncService.getRateLimitInfo
getRateLimitInfo(ss, chainId, t) ==
    LET rateLimitCheck == checkRateLimit(ss, chainId, t)
        remainingTime == calculateRemainingTime(ss, chainId, t)
    IN IF rateLimitCheck # <<>>
       THEN [canSync |-> FALSE, remainingTime |-> remainingTime,
             message |-> rateLimitCheck[1].message]
       ELSE [canSync |-> TRUE, remainingTime |-> remainingTime,
             message |->
                 IF remainingTime > 0
                 THEN <<"Can sync now, but next sync will be available in",
                        CeilMinutes(remainingTime), "minute(s).">>
                 ELSE <<"Can sync immediately.">>]

\* a variant that creates a record for a chain that has none
GetSyncStatus_CreatesRecord(c) ==
    /\ last' = [op |-> "getSyncStatus", chainId |-> c,
                returned |-> getSyncStatus(syncStatuses, c, now)]
    /\ syncStatuses' = IF Has(syncStatuses, c) THEN syncStatuses
                       ELSE MapSet(syncStatuses, c, FreshStatus(c, now))
    /\ UNCHANGED <<now, ticks, pipes, storage, replaced>>
    /\ UNCHANGED gatewayVars

\* a caller invokes getSyncStatus(c)
GetSyncStatus(c) ==
    /\ last' = [op |-> "getSyncStatus", chainId |-> c,
                returned |-> getSyncStatus(syncStatuses, c, now)]
    /\ UNCHANGED <<now, ticks, syncStatuses, pipes, storage, replaced>>
    /\ UNCHANGED gatewayVars

\* a caller invokes getRateLimitInfo(c)
GetRateLimitInfo(c) ==
    /\ last' = [op |-> "getRateLimitInfo", chainId |-> c,
                returned |-> getRateLimitInfo(syncStatuses, c, now)]
    /\ UNCHANGED <<now, ticks, syncStatuses, pipes, storage, replaced>>
    /\ UNCHANGED gatewayVars

\* the answer to a request whose chainId the schema refused: the Error the
\* transform throws is not a ZodError, so the handler answers 500
Refused(endpoint, val) ==
    [op |-> endpoint, param |-> val, core |-> <<>>, code |-> 500,
     data |-> <<>>]

\* GET /sync/:chainId/status
StatusEndpoint(val) ==
    /\ last' =
          IF ParseChainId(val) = <<>>
          THEN Refused("GET /sync/:chainId/status", val)
          ELSE [op |-> "GET /sync/:chainId/status", param |-> val,
                core |-> ParseChainId(val), code |-> 200,
                data |-> getSyncStatus(syncStatuses, ParseChainId(val)[1],
                                       now)]
    /\ UNCHANGED <<now, ticks, syncStatuses, pipes, storage, replaced>>
    /\ UNCHANGED gatewayVars

\* a variant of GET /sync/:chainId that calls startSync whatever the record
SyncEndpoint_AlwaysStartSync(val) ==
    IF ParseChainId(val) = <<>>
    THEN /\ last' = Refused("GET /sync/:chainId", val)
         /\ UNCHANGED <<now, ticks, syncStatuses, pipes, storage, replaced>>
         /\ UNCHANGED gatewayVars
    ELSE LET chainId == ParseChainId(val)[1]
             r == startSync(syncStatuses, chainId, now)
         IN /\ syncStatuses' = r.ss
            /\ pipes' = [pipes EXCEPT ![chainId] = @ \o r.launched]
            /\ replaced' =
                  IF r.kind = "started"
                  THEN [replaced EXCEPT ![chainId] =
                           Replaced(StatusOf(syncStatuses, chainId))]
                  ELSE replaced
            /\ last' = [op |-> "GET /sync/:chainId", param |-> val,
                        core |-> <<chainId>>,
                        code |-> IF r.kind = "rateLimited" THEN 429 ELSE 200,
                        data |-> <<r.returned>>, kind |-> r.kind]
            /\ UNCHANGED <<now, ticks, storage>>
            /\ UNCHANGED gatewayVars

\* GET /sync/:chainId: a running sync is returned as it is, otherwise
\* startSync is called and its answer returned (429 when rate limited)
SyncEndpoint(val) ==
    IF ParseChainId(val) = <<>>
    THEN /\ last' = Refused("GET /sync/:chainId", val)
         /\ UNCHANGED <<now, ticks, syncStatuses, pipes, storage, replaced>>
         /\ UNCHANGED gatewayVars
    ELSE LET chainId == ParseChainId(val)[1]
             existingStatus == getSyncStatus(syncStatuses, chainId, now)
             r == startSync(syncStatuses, chainId, now)
         IN IF existingStatus # <<>> /\ existingStatus[1].status = "running"
            THEN /\ last' = [op |-> "GET /sync/:chainId", param |-> val,
                             core |-> <<chainId>>, code |-> 200,
                             data |-> existingStatus, kind |-> "existing"]
                 /\ UNCHANGED <<now, ticks, syncStatuses, pipes, storage,
                                replaced>>
                 /\ UNCHANGED gatewayVars
            ELSE /\ syncStatuses' = r.ss
                 /\ pipes' = [pipes EXCEPT ![chainId] = @ \o r.launched]
                 /\ replaced' =
                       IF r.kind = "started"
                       THEN [replaced EXCEPT ![chainId] =
                                Replaced(StatusOf(syncStatuses, chainId))]
                       ELSE replaced
                 /\ last' = [op |-> "GET /sync/:chainId", param |-> val,
                             core |-> <<chainId>>,
                             code |-> IF r.kind = "rateLimited" THEN 429
                                      ELSE 200,
                             data |-> <<r.returned>>, kind |-> r.kind]
                 /\ UNCHANGED <<now, ticks, storage>>
                 /\ UNCHANGED gatewayVars

\* GET /:chainId/:address, the address being one that isAddress accepts:
\* the stored image is served, or the default image when there is none
ImageEndpoint(val, address) ==
    /\ IF ParseChainId(val) = <<>>
       THEN last' = Refused("GET /:chainId/:address", val)
       ELSE \E storedImage \in
                  getImageFromStorage(STORAGE_MODE, storage, localStorage,
                                      ParseChainId(val)[1], address) :
               last' = [op |-> "GET /:chainId/:address", param |-> val,
                        core |-> ParseChainId(val), code |-> 200,
                        data |-> storedImage,
                        served |-> IF storedImage = <<>> THEN "default"
                                   ELSE "stored"]
    /\ UNCHANGED <<now, ticks, syncStatuses, pipes, storage, replaced>>
    /\ UNCHANGED gatewayVars

\* the pipeline steps of every chain
PipelineNext ==
    \/ \E c \in ServiceChains :
          \E k \in DOMAIN pipes[c] : ServiceFetchTokens(c, k)
    \/ \E c \in ServiceChains :
          \E k \in DOMAIN pipes[c] : BulkCheckSettles(c, k)
    \/ \E c \in ServiceChains :
          \E k \in DOMAIN pipes[c] : LocalProbeSettles(c, k)
    \/ \E c \in ServiceChains :
          \E k \in DOMAIN pipes[c] : MigrateBatchSettles(c, k)
    \/ \E c \in ServiceChains :
          \E k \in DOMAIN pipes[c] : DownloadSettles(c, k)

\* the service as its HTTP clients drive it
ApiNext ==
    \/ \E d \in TickSteps : ServiceTick(d)
    \/ \E c \in ServiceChains : GetSyncStatus(c)
    \/ \E c \in ServiceChains : GetRateLimitInfo(c)
    \/ \E val \in ChainIdParams : StatusEndpoint(val)
    \/ \E val \in ChainIdParams : SyncEndpoint(val)
    \/ \E val \in ChainIdParams : ImageEndpoint(val, Addr1)
    \/ PipelineNext

ApiSpec == ServiceInit /\ [][ApiNext]_vars

\* SyncService with callers of startSync for every chain
CrossChainNext ==
    \/ \E d \in TickSteps : ServiceTick(d)
    \/ \E c \in Chains : StartSync(c)
    \/ PipelineNext

CrossChainSpec == ServiceInit /\ [][CrossChainNext]_vars

----------------------------------------------------------------------------
(* Independence of the chains *)

\* the status map with only the record of chain c
OwnRecord(ss, c) == [k \in (DOMAIN ss) \cap {c} |-> ss[k]]

\* C22: for distinct chains A and B, no startSync call, rejection or
\* pipeline step for chain A changes the record or the pipeline of chain B;
\* and a startSync for chain B is answered as if B's record were the only
\* one: it is rejected, or returns a running record, only on account of B's
\* own record, what it returns is about B, and it starts a sync whenever B
\* has no record inside its cool-down and no running sync, whatever the
\* state of chain A.
C22_CrossChainIndependence ==
    [][\A a, b \in Chains :
          a # b =>
             /\ ("chainId" \in DOMAIN last' /\ last'.chainId = a) =>
                   /\ StatusOf(syncStatuses', b) = StatusOf(syncStatuses, b)
                   /\ pipes'[b] = pipes[b]
             /\ IsStartSync(b) =>
                   LET r == startSync(OwnRecord(syncStatuses, b), b, now) IN
                   /\ last'.kind = r.kind
                   /\ last'.returned = r.returned
                   /\ last'.returned.chainId = b
                   /\ (~InCoolDown(syncStatuses, b, now)
                          /\ ~(Has(syncStatuses, b)
                                  /\ syncStatuses[b].status = "running")) =>
                         /\ last'.kind = "started"
                         /\ Len(pipes'[b]) = Len(pipes[b]) + 1]_vars

\* a sync of one chain is started while the pipeline of the other chain is
\* in flight, its record running and inside its cool-down
C22_Witness ==
    /\ last.op = "startSync"
    /\ last.kind = "started"
    /\ \E a \in Chains \ {last.chainId} :
          /\ Has(syncStatuses, a)
          /\ syncStatuses[a].status = "running"
          /\ InCoolDown(syncStatuses, a, now)
          /\ pipes[a] # <<>>
          /\ pipes[a][1].pc = "download"
    /\ pipes[last.chainId] # <<>>

----------------------------------------------------------------------------
(* Status queries *)

\* the step starts a sync of chain c
StartsSync(c) ==
    \/ IsStartSync(c) /\ last'.kind = "started"
    \/ /\ last'.op = "GET /sync/:chainId"
       /\ last'.core = <<c>>
       /\ "kind" \in DOMAIN last'
       /\ last'.kind = "started"

\* the time the cool-down of record st is counted from
CoolDownRef(st) == IF st.status = "running" THEN st.startTime ELSE st.endTime

\* C23: getSyncStatus(chainId) returns absent if and only if no sync was
\* ever started for the chain (no record exists at the start, and a record
\* exists after a step exactly if it existed before or the step started a
\* sync of the chain); otherwise it returns the current record with
\* remainingTime = max(0, cool-down - (now - ref)), ref being startTime for a
\* running record and endTime for a terminal one, computed at the call.
C23_GetSyncStatus ==
    /\ syncStatuses = EmptyMap
    /\ [][\A c \in ServiceChains :
             /\ Has(syncStatuses', c)
                   <=> (Has(syncStatuses, c) \/ StartsSync(c))
             /\ (last'.op = "getSyncStatus" /\ last'.chainId = c) =>
                   /\ (last'.returned = <<>>) <=> ~Has(syncStatuses, c)
                   /\ last'.returned # <<>> =>
                         LET st == syncStatuses[c]
                             returned == last'.returned[1]
                         IN /\ DOMAIN returned
                                  = DOMAIN st \cup {"remainingTime"}
                            /\ \A f \in DOMAIN st \ {"remainingTime"} :
                                  returned[f] = st[f]
                            /\ st.status \in {"running", "completed", "failed"}
                            /\ IsTerminal(st) => "endTime" \in DOMAIN st
                            /\ returned.remainingTime
                                  = Max(0, rateLimitMs
                                             - (now - CoolDownRef(st)))]_vars

\* getSyncStatus has answered for a completed record whose cool-down is over
C23_Witness ==
    /\ last.op = "getSyncStatus"
    /\ last.returned # <<>>
    /\ last.returned[1].status = "completed"
    /\ last.returned[1].remainingTime = 0
    /\ now - last.returned[1].endTime > rateLimitMs

----------------------------------------------------------------------------
(* Read-only observation *)

ObservationOps == {"getSyncStatus", "getRateLimitInfo",
                   "GET /sync/:chainId/status"}

\* C24: getSyncStatus, getRateLimitInfo and the GET /sync/{chainId}/status
\* endpoint never create, replace or modify a SyncStatus record and never
\* launch a pipeline, whatever the chain's state (no record, running,
\* terminal inside or outside the cool-down); nor do they change what is
\* stored.
C24_ReadOnlyObservation ==
    [][last'.op \in ObservationOps =>
          /\ syncStatuses' = syncStatuses
          /\ pipes' = pipes
          /\ replaced' = replaced
          /\ storage' = storage
          /\ now' = now]_vars

\* the status endpoint has answered for a chain whose sync completed and
\* whose cool-down is over, while another chain's sync is running
C24_Witness ==
    /\ last.op = "GET /sync/:chainId/status"
    /\ last.core = <<1>>
    /\ last.data # <<>>
    /\ last.data[1].status = "completed"
    /\ last.data[1].remainingTime = 0
    /\ Has(syncStatuses, 0)
    /\ syncStatuses[0].status = "running"
    /\ pipes[0] # <<>>

----------------------------------------------------------------------------
(* Validation of the chain id *)

EndpointOps == {"GET /sync/:chainId", "GET /sync/:chainId/status",
                "GET /:chainId/:address"}

\* the text is the decimal literal of a positive integer
IsPositiveInteger(val) ==
    LET num == Number(val) IN
    /\ ~isNaN(num)
    /\ NumberIsInteger(num)
    /\ ~LessThanZero(num)
    /\ num.whole > 0

\* C27: the sync, status and image endpoints refuse every chainId path
\* value that is not a positive integer (0, negative numbers, non-integers,
\* non-numeric text) before SyncService or storage is reached, so that the
\* core is only ever called with a chainId greater than 0 and holds records
\* of such chains only.
C27_ChainIdValidation ==
    /\ \A c \in DOMAIN syncStatuses : c > 0
    /\ last.op \in EndpointOps =>
          /\ ~IsPositiveInteger(last.param) =>
                /\ last.core = <<>>
                /\ last.code \in {400, 500}
          /\ last.core # <<>> => last.core[1] > 0

----------------------------------------------------------------------------
(* The shape of an ImageResult *)

\* exactly one of buffer and url is populated
ExactlyOneSource(r) == ("buffer" \in DOMAIN r) # ("url" \in DOMAIN r)

\* every ImageResult a provider has resolved to, in any fan-out in flight
ProviderResults ==
    {resolution.levels[n].slots[k].result[1] :
        <<n, k>> \in
           {x \in (DOMAIN resolution.levels) \X (DOMAIN Providers) :
               /\ x[2] \in DOMAIN resolution.levels[x[1]].slots
               /\ resolution.levels[x[1]].slots[x[2]].st = "settled"
               /\ resolution.levels[x[1]].slots[x[2]].result # <<>>}}

\* the ImageResult the resolver has returned, if any
ResolverResults ==
    IF Returned /\ resolution.returned[1] # <<>>
    THEN {resolution.returned[1][1]} ELSE {}

\* C25: every non-absent ImageResult returned by a provider (local, remote
\* APIs, token lists, pendle-pt-underlying) and by the resolver has exactly
\* one of buffer and url populated, never both and never neither.
C25_ExactlyOneOfBufferAndUrl ==
    \A r \in ProviderResults \cup ResolverResults : ExactlyOneSource(r)

\* the resolver has returned the stored logo that the derived provider found
C25_Witness ==
    /\ Returned
    /\ resolution.returned[1] # <<>>
    /\ resolution.returned[1][1].provider = PtName
    /\ "buffer" \in DOMAIN resolution.returned[1][1]
    /\ resolution.deepest = 1
    /\ ProviderResults # {}

----------------------------------------------------------------------------
(* The derived provider and the result it passes on *)

\* the position of the derived provider in the top-level fan-out
PtIndex == Len(Providers)

\* the slot of the derived provider in the top-level fan-out of res
PtSlot(res) == res.levels[1].slots[PtIndex]

\* the entire provider chain minus the derived provider
ChainMinusItself == SubSeq(Providers, 1, Len(Providers) - 1)

\* r2 is r with the provider name of the derived provider, the rest kept
SameButProvider(r2, r) ==
    /\ DOMAIN r2 = DOMAIN r
    /\ r2.provider = PtName
    /\ \A f \in DOMAIN r \ {"provider"} : r2[f] = r[f]

\* the step in which the derived provider, having resolved the underlying
\* address, goes on from its look into storage
LeavesStorageCheck ==
    /\ resolution.levels # <<>>
    /\ resolution'.levels # <<>>
    /\ PtSlot(resolution).st = "pending"
    /\ PtSlot(resolution).pc = "s3"
    /\ PtSlot(resolution') # PtSlot(resolution)

\* that step fans out over the entire provider chain minus the derived
\* provider, for the underlying address, invoking each available provider
DelegatesToChain ==
    /\ PtSlot(resolution').st = "pending"
    /\ PtSlot(resolution').pc = "delegated"
    /\ Len(resolution'.levels) = 2
    /\ resolution'.levels[2].address = PtSlot(resolution).underlyingAddress
    /\ resolution'.levels[2].providers = ChainMinusItself
    /\ \A k \in DOMAIN ChainMinusItself :
          resolution'.levels[2].slots[k].calls
             = IF resolution.avail[ChainMinusItself[k]] THEN 1 ELSE 0

\* that step returns the logo of the underlying asset held in storage
ReturnsStoredLogo ==
    /\ PtSlot(resolution').st = "settled"
    /\ PtSlot(resolution').result # <<>>
    /\ PtSlot(resolution').result[1].provider = PtName
    /\ "url" \notin DOMAIN PtSlot(resolution').result[1]
    /\ \E o \in storage :
          /\ o.key = StorageKey(1, PtSlot(resolution).underlyingAddress)
          /\ PtSlot(resolution').result[1].buffer = o.body
    /\ Len(resolution'.levels) = 1

\* the step in which the delegated fan-out returns to the derived provider:
\* it settles with absent if the fan-out found nothing, else with the
\* fan-out's result under its own provider name, the rest unchanged
PassesOnResult ==
    (/\ resolution.levels # <<>>
     /\ resolution'.levels # <<>>
     /\ PtSlot(resolution).st = "pending"
     /\ PtSlot(resolution).pc = "delegated"
     /\ PtSlot(resolution') # PtSlot(resolution)) =>
       LET result == FirstResult(Results(resolution.levels[2])) IN
       /\ AllSettled(resolution.levels[2])
       /\ PtSlot(resolution').st = "settled"
       /\ (result = <<>>) <=> (PtSlot(resolution').result = <<>>)
       /\ result # <<>> =>
             SameButProvider(PtSlot(resolution').result[1], result[1])

----------------------------------------------------------------------------
(* The providers on their own: how each one derives the extension of the   *)
(* ImageResult it returns.  Here a file name, the path of a URL and an     *)
(* extension are spelled out as sequences of one-character strings, so     *)
(* that split, pop, startsWith and toLowerCase are computed.               *)

ExtPng == <<"p", "n", "g">>
ExtJpg == <<"j", "p", "g">>
ExtJpeg == <<"j", "p", "e", "g">>
ExtWebp == <<"w", "e", "b", "p">>
ExtSvg == <<"s", "v", "g">>
ExtGif == <<"g", "i", "f">>
ExtBmp == <<"b", "m", "p">>
ExtIco == <<"i", "c", "o">>
ExtTiff == <<"t", "i", "f", "f">>

\* the position of the last "." of s, 0 when there is none
LastDotAt(s) ==
    IF \E i \in DOMAIN s : s[i] = "."
    THEN CHOOSE i \in DOMAIN s :
            s[i] = "." /\ \A j \in (i + 1)..Len(s) : s[j] # "."
    ELSE 0

\* s.split('.').pop()
SplitPop(s) == SubSeq(s, LastDotAt(s) + 1, Len(s))

\* s.startsWith(prefix)
StartsWith(s, prefix) ==
    Len(s) >= Len(prefix) /\ SubSeq(s, 1, Len(prefix)) = prefix

RemoteProviders ==
    {"coingecko", "1inch", "alchemy", "sim-dune", "pendle", "token-lists"}

\* the cases of the switch of getExtensionFromUrl, per provider
SwitchCases(name) ==
    IF name = "coingecko" THEN {ExtPng, ExtJpg, ExtJpeg, ExtWebp, ExtSvg}
    ELSE {ExtPng, ExtJpg, ExtJpeg, ExtWebp, ExtSvg, ExtGif}

\* the default of the switch and of the catch block, per provider
DefaultExtension(name) == IF name = "pendle" THEN ExtSvg ELSE ExtPng

\* a variant that returns whatever follows the last dot of the path
getExtensionFromUrl_NoSwitch(name, url) ==
    IF ~url.valid THEN DefaultExtension(name)
    ELSE ToLowerCase(SplitPop(url.pathname))

\* getExtensionFromUrl of provider `name`; new URL(url) throws for a url
\* that is not valid
getExtensionFromUrl(name, url) ==
    IF ~url.valid THEN DefaultExtension(name)
    ELSE LET extension == ToLowerCase(SplitPop(url.pathname)) IN
         IF extension \in SwitchCases(name) THEN extension
         ELSE DefaultExtension(name)

\* what a remote provider returns for a token whose image URL it knows
RemoteFetchImage(name, url) ==
    <<[url |-> url, provider |-> name,
       extension |-> getExtensionFromUrl(name, url)]>>

ImagePrefix == <<"i", "m", "a", "g", "e", ".">>

\* LocalImagesProvider.fetchImage for a token directory listing `files`
\* (<<>> when the directory does not exist), imageFile being the entry that
\* files.find meets first (<<>> when it meets none), readOk whether
\* readFile succeeds
LocalFetchImage(files, imageFile, readOk) ==
    IF files = <<>> THEN <<>>
    ELSE IF imageFile = <<>> THEN <<>>
    ELSE IF SplitPop(imageFile[1]) = <<>> THEN <<>>
    ELSE IF ~readOk THEN <<>>
    ELSE <<[buffer |-> "bytes", provider |-> "local",
            extension |-> SplitPop(imageFile[1]),
            path |-> imageFile[1]]>>

\* the paths of the image URLs the upstream APIs answer with
Stem == <<"/", "a">>
Pathnames ==
    {Stem} \cup {Stem \o <<".">>}
      \cup {Stem \o <<".">> \o e :
              e \in {ExtPng, ExtJpg, ExtJpeg, ExtWebp, ExtSvg, ExtGif, ExtBmp,
                     ExtIco, ExtTiff, <<"P", "N", "G">>,
                     <<"J", "P", "E", "G">>, <<"a", "b", "c">>}}
      \cup {Stem \o <<".">> \o ExtPng \o <<".">> \o ExtGif}

ImageUrls ==
    {[valid |-> TRUE, pathname |-> p] : p \in Pathnames}
      \cup {[valid |-> FALSE, pathname |-> <<>>]}

\* the files a token directory of the local images may hold
FileNames ==
    {ImagePrefix \o e :
        e \in {ExtPng, ExtJpeg, <<"P", "N", "G">>, <<"a", "b", "c">>, <<>>}}
      \cup {<<"i", "m", "a", "g", "e">>}

\* the extension metadata of the objects in storage: whatever a sync wrote
StoredExtensions == {ExtPng, ExtJpeg, ExtSvg}

\* a remote provider answers for a token whose image URL is url
RemoteFetch(name, url) ==
    /\ last' = [op |-> "fetchImage", provider |-> name, url |-> url,
                returned |-> RemoteFetchImage(name, url)]
    /\ UNCHANGED <<now, ticks, syncStatuses, pipes, storage, replaced>>
    /\ UNCHANGED gatewayVars

\* the local provider answers for a token directory holding `dir`, or for
\* one that does not exist
LocalFetch(dir) ==
    /\ \E imageFile \in {<<f>> : f \in {g \in dir : StartsWith(g, ImagePrefix)}}
                          \cup {<<>>} :
       \E exists \in BOOLEAN, readOk \in BOOLEAN :
          /\ (imageFile = <<>>) <=> (\A g \in dir : ~StartsWith(g, ImagePrefix))
          /\ last' = [op |-> "fetchImage", provider |-> "local",
                      dir |-> IF exists THEN <<dir>> ELSE <<>>,
                      imageFile |-> imageFile,
                      returned |-> LocalFetchImage(
                                      IF exists THEN <<dir>> ELSE <<>>,
                                      imageFile, readOk)]
    /\ UNCHANGED <<now, ticks, syncStatuses, pipes, storage, replaced>>
    /\ UNCHANGED gatewayVars

\* the derived provider passes on the result the provider chain found for
\* the underlying asset
DerivedPassesOn ==
    /\ last.op = "fetchImage"
    /\ last.provider # PtName
    /\ last.returned # <<>>
    /\ last' = [op |-> "fetchImage", provider |-> PtName,
                underlying |-> last.returned[1],
                returned |-> <<RetaggedResult(last.returned[1])>>]
    /\ UNCHANGED <<now, ticks, syncStatuses, pipes, storage, replaced>>
    /\ UNCHANGED gatewayVars

\* the derived provider returns the stored logo of the underlying asset
DerivedReturnsStored(extension) ==
    /\ last' = [op |-> "fetchImage", provider |-> PtName,
                underlying |-> [buffer |-> "bytes", extension |-> extension],
                returned |-> <<StoredLogoResult(
                       [buffer |-> "bytes", extension |-> extension])>>]
    /\ UNCHANGED <<now, ticks, syncStatuses, pipes, storage, replaced>>
    /\ UNCHANGED gatewayVars

ProviderNext ==
    \/ \E name \in RemoteProviders : \E url \in ImageUrls :
          RemoteFetch(name, url)
    \/ \E dir \in SUBSET FileNames : LocalFetch(dir)
    \/ DerivedPassesOn
    \/ \E extension \in StoredExtensions : DerivedReturnsStored(extension)

ProviderSpec == Init /\ [][ProviderNext]_vars

\* the closed set of extensions
ClosedExtensions ==
    {ExtPng, ExtJpg, ExtWebp, ExtSvg, ExtGif, ExtBmp, ExtIco, ExtTiff}

----------------------------------------------------------------------------
(* Provenance of the storage writes of a sync *)

\* the object stored for the token
StoredAt(store, chainId, address) ==
    CHOOSE o \in store : o.key = StorageKey(chainId, address)

\* the details the step has pushed for chain c
Pushed(c) ==
    LET before == DetailsSoFar(syncStatuses, pipes, c)
        after == DetailsSoFar(syncStatuses', pipes', c)
    IN SubSeq(after, Len(before) + 1, Len(after))

\* C29: storage writes made by the migration phase carry the provider tag
\* 'local-migration' and an originalUrl equal to the local file path; storage
\* writes made by the download phase carry the provider the resolver
\* returned; and the provider of a 'migrated' or 'downloaded' detail equals
\* the provider recorded in the storage metadata of that token's object.
C29_WriteProvenance ==
    [][\A c \in Chains :
          /\ (last'.op = "migrate" /\ last'.chainId = c) =>
                /\ \A j \in DOMAIN Pushed(c) :
                      Pushed(c)[j].status = "migrated" =>
                         /\ StorageHas(storage', c, Pushed(c)[j].address)
                         /\ Pushed(c)[j].provider
                               = StoredAt(storage', c,
                                          Pushed(c)[j].address).provider
                /\ \A o \in storage' \ storage :
                      /\ o.provider = "local-migration"
                      /\ o.originalUrl
                            = LocalImage(o.key.chainId, o.key.address).path
                      /\ \E j \in DOMAIN Pushed(c) :
                            /\ Pushed(c)[j].status = "migrated"
                            /\ StorageKey(c, Pushed(c)[j].address) = o.key
          /\ (last'.op = "download" /\ last'.chainId = c) =>
                /\ Len(Pushed(c)) = 1
                /\ Pushed(c)[1].address = last'.token.address
                /\ Pushed(c)[1].status = "downloaded" =>
                      /\ StorageHas(storage', c, last'.token.address)
                      /\ Pushed(c)[1].provider
                            = StoredAt(storage', c,
                                       last'.token.address).provider
                      /\ Pushed(c)[1].provider
                            = fetchImage(last'.outcome.providers)[1].provider
                /\ \A o \in storage' \ storage :
                      /\ Pushed(c)[1].status = "downloaded"
                      /\ o.key = StorageKey(c, last'.token.address)
                      /\ o.provider
                            = fetchImage(last'.outcome.providers)[1].provider]_vars

\* a download has just written the image coingecko found, next to an image
\* that the migration phase of the same sync wrote for another token
C29_Witness ==
    /\ last.op = "download"
    /\ StorageHas(storage, last.chainId, last.token.address)
    /\ StoredAt(storage, last.chainId, last.token.address).provider
          = "coingecko"
    /\ LET details == DetailsSoFar(syncStatuses, pipes, last.chainId) IN
          /\ details # <<>>
          /\ details[Len(details)].status = "downloaded"
          /\ details[Len(details)].provider = "coingecko"
          /\ \E j \in DOMAIN details :
                /\ details[j].status = "migrated"
                /\ details[j].provider = "local-migration"
                /\ StorageHas(storage, last.chainId, details[j].address)
                /\ StoredAt(storage, last.chainId,
                            details[j].address).provider = "local-migration"
                /\ StoredAt(storage, last.chainId,
                            details[j].address).originalUrl
                      = LocalImage(last.chainId, details[j].address).path

----------------------------------------------------------------------------
(* Tokens the bulk existence check reports as present *)

\* how many entries of the list carry the address
Entries(s, a) == Cardinality({j \in DOMAIN s : s[j].address = a})

\* how many entries with the address the check reported as present
ReportedPresent(checks, a) ==
    Cardinality({j \in DOMAIN checks :
        checks[j].address = a /\ checks[j].exists})

\* how many entries with the address the check reported as absent
ReportedAbsent(checks, a) ==
    Cardinality({j \in DOMAIN checks :
        checks[j].address = a /\ ~checks[j].exists})

CheckedAddresses(checks) == {checks[j].address : j \in DOMAIN checks}

\* the lists of work of invocation p hold the entries reported absent and
\* no other entry
WorkOnlyOnAbsent(p) ==
    "existenceChecks" \in DOMAIN p =>
       /\ Len(p.missingFromStorage)
             = Len(p.existenceChecks) - p.existingInStorageCount
       /\ \A a \in CheckedAddresses(p.existenceChecks) :
             /\ Entries(p.missingFromStorage, a)
                   = ReportedAbsent(p.existenceChecks, a)
             /\ "hasLocalImages" \in DOMAIN p =>
                   Entries(p.hasLocalImages, a)
                         + Entries(p.stillMissingTokens, a)
                      = ReportedAbsent(p.existenceChecks, a)
       /\ "hasLocalImages" \in DOMAIN p =>
             Len(p.hasLocalImages) + Len(p.stillMissingTokens)
                = Len(p.missingFromStorage)

\* the result lists 'exists' for each entry reported present, and no other
\* outcome beyond the entries reported absent
ExistsRecorded(result, checks) ==
    /\ result.existingImages
          = Cardinality({j \in DOMAIN checks : checks[j].exists})
    /\ \A a \in CheckedAddresses(checks) :
          /\ Cardinality({j \in DOMAIN result.details :
                 /\ result.details[j].address = a
                 /\ result.details[j].status = "exists"})
                = ReportedPresent(checks, a)
          /\ Cardinality({j \in DOMAIN result.details :
                 /\ result.details[j].address = a
                 /\ result.details[j].status # "exists"})
                <= ReportedAbsent(checks, a)

----------------------------------------------------------------------------
(* Termination of a launched pipeline.  Every external call settles and    *)
(* every timer the pipeline sleeps on fires.                               *)

\* the clock advances on its own at most LiveMaxTicks times
LiveMaxTicks == 2

LiveTick(d) ==
    /\ ticks < LiveMaxTicks
    /\ Tick(d)

\* the timer that invocation k of chain c sleeps on fires
TimerFires(c, k) ==
    /\ pipes[c][k].pc \in {"migrate", "download"}
    /\ now < pipes[c][k].readyAt
    /\ now' = pipes[c][k].readyAt
    /\ last' = [op |-> "timer", chainId |-> c]
    /\ UNCHANGED <<ticks, syncStatuses, pipes, storage, replaced>>
    /\ UNCHANGED gatewayVars

\* the token lists the registry answers with in this specification
LiveResponses ==
    {[kind |-> "networkError"], [kind |-> "notOk"],
     [kind |-> "ok", body |-> JsonNull],
     [kind |-> "ok", body |-> JsonArray(<<Addr1, Addr2>>)]}

LiveFetchTokens(c, k) ==
    /\ FetchTokensSettles(c, k)
    /\ last'.response \in LiveResponses

\* a step of the invocations of chain c
PipelineStep(c) ==
    \E k \in DOMAIN pipes[c] :
       \/ LiveFetchTokens(c, k)
       \/ BulkCheckSettles(c, k)
       \/ LocalProbeSettles(c, k)
       \/ MigrateBatchSettles(c, k)
       \/ DownloadSettles(c, k)

\* a timer of chain c fires
TimerStep(c) == \E k \in DOMAIN pipes[c] : TimerFires(c, k)

LiveNext ==
    \/ \E d \in TickSteps : LiveTick(d)
    \/ \E c \in DrivenChains : StartSync(c)
    \/ \E c \in Chains : \E k \in DOMAIN pipes[c] : LiveFetchTokens(c, k)
    \/ \E c \in Chains : \E k \in DOMAIN pipes[c] : BulkCheckSettles(c, k)
    \/ \E c \in Chains : \E k \in DOMAIN pipes[c] : LocalProbeSettles(c, k)
    \/ \E c \in Chains : \E k \in DOMAIN pipes[c] : MigrateBatchSettles(c, k)
    \/ \E c \in Chains : \E k \in DOMAIN pipes[c] : DownloadSettles(c, k)
    \/ \E c \in Chains : \E k \in DOMAIN pipes[c] : TimerFires(c, k)

\* every awaited call settles and every timer fires
LiveSpec ==
    /\ Init
    /\ [][LiveNext]_vars
    /\ \A c \in Chains : WF_vars(PipelineStep(c)) /\ WF_vars(TimerStep(c))

\* C31: when every external call eventually settles, every record created
\* in state Running eventually reaches Completed or Failed, and no step
\* drops a launched pipeline while its record is still Running.
C31_RunningReachesTerminal ==
    /\ \A c \in Chains :
          (Has(syncStatuses, c) /\ syncStatuses[c].status = "running")
             ~> (Has(syncStatuses, c) /\ IsTerminal(syncStatuses[c]))
    /\ [][\A c \in Chains :
             Len(pipes'[c]) < Len(pipes[c]) =>
                /\ Len(pipes'[c]) = Len(pipes[c]) - 1
                /\ Has(syncStatuses', c)
                /\ IsTerminal(syncStatuses'[c])]_vars

\* a sync that slept on the timer of the download loop has completed
C31_Witness ==
    /\ last.op = "download"
    /\ pipes[last.chainId] = <<>>
    /\ syncStatuses[last.chainId].status = "completed"
    /\ syncStatuses[last.chainId].result.downloadedImages = 1
    /\ now >= syncStatuses[last.chainId].startTime + FETCH_IMAGE_DELAY_MS
    /\ ticks = 0

----------------------------------------------------------------------------
(* One pipeline per chain *)

\* the step launches a performSync invocation for chain c
Launches(c) == Len(pipes'[c]) > Len(pipes[c])

\* C32: at most one performSync pipeline is in flight for a chain at any
\* time; a pipeline is launched only by a startSync call that replaces an
\* absent or terminal record; and while the chain's record stays Running no
\* call launches another pipeline, however long it has been running.
C32_OnePipelinePerChain ==
    [][\A c \in Chains :
          /\ Len(pipes'[c]) <= 1
          /\ pipes'[c] # <<>> =>
                Has(syncStatuses', c) /\ syncStatuses'[c].status = "running"
          /\ Launches(c) =>
                /\ IsStartSync(c)
                /\ last'.kind = "started"
                /\ pipes[c] = <<>>
                /\ ~Has(syncStatuses, c) \/ IsTerminal(syncStatuses[c])
          /\ (Has(syncStatuses, c) /\ syncStatuses[c].status = "running") =>
                ~Launches(c)]_vars

\* a startSync call met a sync that had been running for longer than the
\* cool-down and left its one pipeline as it was
C32_Witness ==
    /\ last.op = "startSync"
    /\ last.kind = "existing"
    /\ Len(pipes[last.chainId]) = 1
    /\ syncStatuses[last.chainId].status = "running"
    /\ now - syncStatuses[last.chainId].startTime > rateLimitMs
    /\ pipes[last.chainId][1].pc = "download"

----------------------------------------------------------------------------
(* GET /sync/{chainId} *)

\* the step is a GET /sync/{chainId} request that passed validation, for
\* chain c
IsSyncRequest(c) ==
    /\ last'.op = "GET /sync/:chainId"
    /\ last'.core = <<c>>

\* the record of chain c is terminal and its cool-down has not elapsed
TerminalInCoolDown(c) ==
    /\ Has(syncStatuses, c)
    /\ IsTerminal(syncStatuses[c])
    /\ now - CoolDownRef(syncStatuses[c]) < rateLimitMs

\* C33: the GET /sync/{chainId} endpoint never answers 429 while the chain's
\* record is Running: it returns the Running record with success and starts
\* nothing, even inside the cool-down window; it answers 429, with a
\* remainingTime > 0, exactly when the record is terminal and within the
\* cool-down; otherwise a new Running record is created and returned.
C33_SyncEndpoint ==
    [][\A c \in ServiceChains :
          IsSyncRequest(c) =>
             /\ (Has(syncStatuses, c) /\ syncStatuses[c].status = "running") =>
                   /\ last'.code = 200
                   /\ last'.data
                         = <<Merge(syncStatuses[c],
                               [remainingTime |->
                                   Max(0, rateLimitMs
                                       - (now - syncStatuses[c].startTime))])>>
                   /\ syncStatuses' = syncStatuses
                   /\ pipes' = pipes
             /\ last'.code = 429 <=> TerminalInCoolDown(c)
             /\ last'.code = 429 =>
                   /\ last'.data[1].rateLimited
                   /\ last'.data[1].chainId = c
                   /\ last'.data[1].remainingTime
                         = rateLimitMs - (now - CoolDownRef(syncStatuses[c]))
                   /\ last'.data[1].remainingTime > 0
                   /\ syncStatuses' = syncStatuses
                   /\ pipes' = pipes
             /\ (~Has(syncStatuses, c)
                   \/ (IsTerminal(syncStatuses[c]) /\ ~TerminalInCoolDown(c))) =>
                   /\ last'.code = 200
                   /\ last'.data = <<FreshStatus(c, now)>>
                   /\ Has(syncStatuses', c)
                   /\ syncStatuses'[c].status = "running"
                   /\ syncStatuses'[c].startTime = now
                   /\ Len(pipes'[c]) = Len(pipes[c]) + 1]_vars

\* a request met a sync that is running inside its cool-down window and was
\* answered with the running record
C33_Witness ==
    /\ last.op = "GET /sync/:chainId"
    /\ last.core # <<>>
    /\ last.code = 200
    /\ last.kind = "existing"
    /\ syncStatuses[last.core[1]].status = "running"
    /\ now - syncStatuses[last.core[1]].startTime < rateLimitMs
    /\ now > syncStatuses[last.core[1]].startTime
    /\ last.data[1].remainingTime > 0

----------------------------------------------------------------------------
(* The batch loop of migrateLocalImages on its own, over lists longer than *)
(* one batch.  A token is its position in tokensWithLocal; resolution      *)
(* holds the loop: the length n of the list, the loop index i, the         *)
(* positions whose callback has started and those whose callback has       *)
(* settled, how many of the current batch succeeded, and the counters.     *)

\* the longest list of has-local tokens
MaxHasLocal == 41

\* the lengths of tokensWithLocal
LocalCounts == {0, 1, batchSize, batchSize + 1, MaxHasLocal}

\* the orders in which the callbacks of a batch settle here
SettleOrders == {"ascending", "descending"}

\* tokensWithLocal.slice(i, i + batchSize), as positions
Slice(n, i) == (i + 1)..Min(i + batchSize, n)

\* a variant that slices the whole rest of the list
Launch_WholeRest(m, i, order) ==
    Merge(m, [pc |-> "allSettled", i |-> i, order |-> order,
              started |-> m.started \cup ((i + 1)..m.n),
              succeeded |-> 0])

\* one turn of the for loop at index i: the loop ends, or batch.map starts
\* the callback of every token of the slice
Launch(m, i, order) ==
    IF i < m.n
    THEN Merge(m, [pc |-> "allSettled", i |-> i, order |-> order,
                   started |-> m.started \cup Slice(m.n, i),
                   succeeded |-> 0])
    ELSE Merge(m, [pc |-> "returned", i |-> i])

\* the callbacks in flight
InFlight(m) == m.started \ m.settled

BatchInit ==
    /\ now = Epoch
    /\ ticks = 0
    /\ syncStatuses = EmptyMap
    /\ pipes = [c \in Chains |-> <<>>]
    /\ storage = {}
    /\ last = [op |-> "init"]
    /\ replaced = [c \in Chains |-> <<>>]
    /\ localStorage = {}
    /\ \E n \in LocalCounts : \E order \in SettleOrders :
          resolution =
             Launch([n |-> n, started |-> {}, settled |-> {},
                     migrated |-> 0, failed |-> 0],
                    0, IF n = 0 THEN "ascending" ELSE order)

\* the callback of one token in flight settles, with { success } or by
\* rejecting
CallbackSettles(success) ==
    /\ resolution.pc = "allSettled"
    /\ InFlight(resolution) # {}
    /\ LET j == IF resolution.order = "ascending"
                THEN CHOOSE x \in InFlight(resolution) :
                        \A y \in InFlight(resolution) : x <= y
                ELSE CHOOSE x \in InFlight(resolution) :
                        \A y \in InFlight(resolution) : x >= y
       IN /\ resolution' =
                Merge(resolution,
                      [settled |-> resolution.settled \cup {j},
                       succeeded |-> resolution.succeeded
                                        + (IF success THEN 1 ELSE 0)])
          /\ last' = [op |-> "callback", token |-> j, success |-> success]
    /\ UNCHANGED <<now, ticks, syncStatuses, pipes, storage, replaced,
                   localStorage>>

\* Promise.allSettled resolves: the results are counted, and the loop either
\* sleeps before the next batch or goes on to its end
BatchJoins ==
    /\ resolution.pc = "allSettled"
    /\ InFlight(resolution) = {}
    /\ LET size == Cardinality(Slice(resolution.n, resolution.i))
           counted ==
               Merge(resolution,
                     [migrated |-> resolution.migrated + resolution.succeeded,
                      failed |-> resolution.failed
                                    + (size - resolution.succeeded)])
       IN resolution' =
             IF resolution.i + batchSize < resolution.n
             THEN Merge(counted, [pc |-> "sleep"])
             ELSE Launch(counted, resolution.i + batchSize, resolution.order)
    /\ last' = [op |-> "allSettled"]
    /\ UNCHANGED <<now, ticks, syncStatuses, pipes, storage, replaced,
                   localStorage>>

\* the pause between two batches is over: the next turn of the loop
NextBatch(order) ==
    /\ resolution.pc = "sleep"
    /\ resolution' = Launch(resolution, resolution.i + batchSize, order)
    /\ now' = now + MIGRATION_BATCH_DELAY_MS
    /\ last' = [op |-> "nextBatch"]
    /\ UNCHANGED <<ticks, syncStatuses, pipes, storage, replaced,
                   localStorage>>

BatchNext ==
    \/ \E success \in BOOLEAN : CallbackSettles(success)
    \/ BatchJoins
    \/ \E order \in SettleOrders : NextBatch(order)

BatchSpec == BatchInit /\ [][BatchNext]_vars

\* the batch a position belongs to
BatchOf(j) == (j - 1) \div batchSize

\* C34: the migration phase processes the has-local tokens in consecutive
\* batches of at most 20; at most 20 token migrations are in flight at any
\* time; and no migration of batch k+1 starts before every migration of
\* batch k has settled, whether with success or with failure.
C34_MigrationBatching ==
    /\ Cardinality(InFlight(resolution)) <= batchSize
    /\ resolution.settled \subseteq resolution.started
    /\ \E k \in 0..resolution.n : resolution.started = 1..k
    /\ \A j \in InFlight(resolution) : BatchOf(j) = resolution.i \div batchSize
    /\ resolution.i % batchSize = 0
    /\ \A j, h \in resolution.started :
          BatchOf(j) < BatchOf(h) => j \in resolution.settled
    /\ resolution.pc = "returned" =>
          /\ resolution.settled = 1..resolution.n
          /\ resolution.migrated + resolution.failed = resolution.n

\* the third batch of a list of 41 tokens is in flight, the forty before it
\* having settled, some with failure
C34_Witness ==
    /\ resolution.n = MaxHasLocal
    /\ resolution.pc = "allSettled"
    /\ resolution.i = 2 * batchSize
    /\ InFlight(resolution) = {MaxHasLocal}
    /\ resolution.settled = 1..(2 * batchSize)
    /\ resolution.failed > 0
    /\ resolution.migrated > 0

----------------------------------------------------------------------------
(* The resolver waits for every provider *)

\* every provider call of the fan-out has settled
NonePending(level) ==
    \A k \in DOMAIN level.slots : level.slots[k].st # "pending"

\* C35: ImageProviderManager.fetchImage returns only after every invoked
\* provider has settled: even when the highest-priority provider has already
\* produced a result it does not return until the slowest provider, the
\* derived provider and its delegated fan-out included, has finished; it
\* never returns while a provider call is pending.
C35_ReturnsAfterAllSettled ==
    [][/\ resolution'.returned # resolution.returned =>
             /\ Len(resolution.levels) = 1
             /\ NonePending(resolution.levels[1])
             /\ resolution'.levels = resolution.levels
       /\ Len(resolution'.levels) < Len(resolution.levels) =>
             /\ NonePending(resolution.levels[Len(resolution.levels)])
             /\ resolution'.returned = <<>>
       /\ (resolution.levels # <<>>
             /\ \E n \in DOMAIN resolution.levels :
                   ~NonePending(resolution.levels[n])) =>
             resolution'.returned = <<>>]_vars

\* fetchImage has returned the image of the local provider, which settled
\* first, after the derived provider ran its delegated fan-out and settled
\* last
C35_Witness ==
    /\ Returned
    /\ resolution.deepest = 2
    /\ resolution.order # <<>>
    /\ resolution.order[1] = "local"
    /\ resolution.order[Len(resolution.order)] = PtName
    /\ resolution.levels[1].slots[1].how = "found"
    /\ resolution.returned[1] = resolution.levels[1].slots[1].result

----------------------------------------------------------------------------
(* PendleProvider and its cache of the per-chain asset list.  resolution   *)
(* holds the provider: its cache, the upstream requests in flight (each    *)
(* with the Date.now() its call captured) and, per chain, the latest       *)
(* capture time among the well-formed fetches that have completed.         *)

cacheExpiry == 5 * 60 * 1000
supportedChains == {1, 42161}

\* the clock advances at most PendleMaxTicks times
PendleMaxTicks == 4
\* at most PendleMaxInFlight upstream requests are in flight
PendleMaxInFlight == 2

PendleTickSteps == {1, cacheExpiry - 1}

\* the chains fetchImage is called for
PendleCallChains == {1, 2}

PendleIcon == [valid |-> TRUE, pathname |-> Stem \o <<".">> \o ExtSvg]

\* the asset lists the API answers with
PendleAssetLists ==
    {<<>>, <<[address |-> Addr1, proIcon |-> PendleIcon]>>}

\* what the upstream request settles with: a network error, a non-ok
\* response, a body that is null, a body without an assets array, or a
\* well-formed body
PendleResponses ==
    {[kind |-> "networkError"], [kind |-> "notOk"],
     [kind |-> "ok", body |-> <<>>],
     [kind |-> "ok", body |-> <<[assets |-> JsonNull]>>]}
      \cup {[kind |-> "ok", body |-> <<[assets |-> JsonArray(a)]>>] :
              a \in PendleAssetLists}

\* the response is one that fetchPendleAssets stores and returns
WellFormed(response) ==
    /\ response.kind = "ok"
    /\ response.body # <<>>
    /\ ~response.body[1].assets.null

\* cached && (now - cached.timestamp) < this.cacheExpiry
CacheHit(cache, chainId, t) ==
    /\ chainId \in DOMAIN cache
    /\ t - cache[chainId].timestamp < cacheExpiry

\* the rest of PendleProvider.fetchImage, once it has the assets
ImageFromAssets(assets, address) ==
    LET found == {j \in DOMAIN assets :
                     ToLowerCase(assets[j].address) = ToLowerCase(address)}
    IN IF found = {} THEN <<>>
       ELSE LET asset == assets[CHOOSE j \in found : \A h \in found : j <= h]
            IN IF "proIcon" \notin DOMAIN asset THEN <<>>
               ELSE <<[url |-> asset.proIcon, provider |-> "pendle",
                       extension |->
                           getExtensionFromUrl("pendle", asset.proIcon)]>>

PendleInit ==
    /\ now = Epoch
    /\ ticks = 0
    /\ syncStatuses = EmptyMap
    /\ pipes = [c \in Chains |-> <<>>]
    /\ storage = {}
    /\ last = [op |-> "init"]
    /\ replaced = [c \in Chains |-> <<>>]
    /\ localStorage = {}
    /\ resolution = [cache |-> EmptyMap, inFlight |-> <<>>,
                     freshest |-> EmptyMap]

pendleFrame ==
    <<ticks, syncStatuses, pipes, storage, replaced, localStorage>>

PendleTick(d) ==
    /\ ticks < PendleMaxTicks
    /\ now' = now + d
    /\ ticks' = ticks + 1
    /\ last' = [op |-> "tick"]
    /\ UNCHANGED <<syncStatuses, pipes, storage, replaced, localStorage,
                   resolution>>

\* PendleProvider.fetchImage(chainId, address) is called and runs up to its
\* first await, or to its end when the cache answers
PendleFetchImage(chainId, address) ==
    /\ IF chainId \notin supportedChains
       THEN /\ last' = [op |-> "fetchImage", chainId |-> chainId,
                        upstream |-> FALSE, fromCache |-> FALSE,
                        returned |-> <<>>]
            /\ UNCHANGED resolution
       ELSE IF CacheHit(resolution.cache, chainId, now)
       THEN /\ last' = [op |-> "fetchImage", chainId |-> chainId,
                        upstream |-> FALSE, fromCache |-> TRUE,
                        returned |->
                            ImageFromAssets(resolution.cache[chainId].data,
                                            address)]
            /\ UNCHANGED resolution
       ELSE /\ Len(resolution.inFlight) < PendleMaxInFlight
            /\ resolution' =
                  [resolution EXCEPT !.inFlight =
                      Append(@, [chainId |-> chainId, address |-> address,
                                 now |-> now])]
            /\ last' = [op |-> "fetchImage", chainId |-> chainId,
                        upstream |-> TRUE, fromCache |-> FALSE]
    /\ UNCHANGED now
    /\ UNCHANGED pendleFrame

\* the upstream request k settles with `response`, and its call goes on to
\* its end
PendleSettles(k, response) ==
    /\ LET call == resolution.inFlight[k] IN
       /\ resolution' =
             [resolution EXCEPT
                !.inFlight = RemoveAt(@, k),
                !.cache = IF WellFormed(response)
                          THEN MapSet(@, call.chainId,
                                   [data |-> response.body[1].assets.items,
                                    timestamp |-> call.now])
                          ELSE @,
                !.freshest = IF WellFormed(response)
                             THEN MapSet(@, call.chainId,
                                      IF call.chainId \in DOMAIN @
                                      THEN Max(@[call.chainId], call.now)
                                      ELSE call.now)
                             ELSE @]
       /\ last' = [op |-> "settles", chainId |-> call.chainId,
                   response |-> response,
                   returned |->
                       IF WellFormed(response)
                       THEN ImageFromAssets(response.body[1].assets.items,
                                            call.address)
                       ELSE <<>>]
    /\ UNCHANGED now
    /\ UNCHANGED pendleFrame

PendleNext ==
    \/ \E d \in PendleTickSteps : PendleTick(d)
    \/ \E chainId \in PendleCallChains : PendleFetchImage(chainId, Addr1)
    \/ \E k \in DOMAIN resolution.inFlight :
          \E response \in PendleResponses : PendleSettles(k, response)

PendleSpec == PendleInit /\ [][PendleNext]_vars

\* C36: after a successful, well-formed asset-list fetch for a chain at time
\* t, every fetchImage for that chain that starts before t + 5 minutes is
\* answered from the cache with no upstream request, a call at or after
\* t + 5 minutes refetches, and a failed or malformed upstream response is
\* never stored in the cache.  (t is the time the call that fetched the list
\* read the clock; the fetch counts once it has completed.)
C36_PendleCacheTtl ==
    [][/\ \A c \in supportedChains :
             (last'.op = "fetchImage" /\ last'.chainId = c
                 /\ c \in DOMAIN resolution.freshest) =>
                /\ now < resolution.freshest[c] + cacheExpiry =>
                      /\ ~last'.upstream
                      /\ last'.fromCache
                      /\ resolution'.inFlight = resolution.inFlight
                /\ now >= resolution.freshest[c] + cacheExpiry =>
                      /\ last'.upstream
                      /\ Len(resolution'.inFlight)
                            = Len(resolution.inFlight) + 1
       /\ (last'.op = "settles" /\ ~WellFormed(last'.response)) =>
             resolution'.cache = resolution.cache]_vars

----------------------------------------------------------------------------
(* Count conservation *)

\* the number of entries of details that carry the tag
Tagged(details, tag) ==
    Cardinality({j \in DOMAIN details : details[j].status = tag})

\* the number of entries of a sequence of addresses equal to a
Occurrences(addresses, a) ==
    Cardinality({j \in DOMAIN addresses : addresses[j] = a})

CompletedResult(c) ==
    /\ Has(syncStatuses, c)
    /\ syncStatuses[c].status = "completed"
    /\ "result" \in DOMAIN syncStatuses[c]

\* C37: in every Completed record, totalTokens == existingImages +
\* migratedFromLocal + downloadedImages + failedDownloads, the details list
\* has exactly totalTokens entries, one per input token, and the number of
\* detail entries tagged exists / migrated / downloaded / failed equals the
\* corresponding aggregate count.
C37_CountConservation ==
    /\ [](\A c \in Chains :
            (Has(syncStatuses, c) /\ syncStatuses[c].status = "completed") =>
               /\ "result" \in DOMAIN syncStatuses[c]
               /\ LET r == syncStatuses[c].result IN
                  /\ r.totalTokens = r.existingImages + r.migratedFromLocal
                                       + r.downloadedImages + r.failedDownloads
                  /\ Len(r.details) = r.totalTokens
                  /\ Tagged(r.details, "exists") = r.existingImages
                  /\ Tagged(r.details, "migrated") = r.migratedFromLocal
                  /\ Tagged(r.details, "downloaded") = r.downloadedImages
                  /\ Tagged(r.details, "failed") = r.failedDownloads
                  /\ \A j \in DOMAIN r.details :
                        r.details[j].status
                           \in {"exists", "migrated", "downloaded", "failed"})
    /\ [][\A c \in Chains :
            (/\ Len(pipes[c]) = 1
             /\ pipes'[c] = <<>>
             /\ "tokens" \in DOMAIN pipes[c][1]
             /\ syncStatuses'[c].status = "completed") =>
               LET tokens == pipes[c][1].tokens
                   details == syncStatuses'[c].result.details
                   input == [j \in DOMAIN tokens |-> ToLowerCase(tokens[j])]
                   output == [j \in DOMAIN details |-> details[j].address]
               IN \A j \in DOMAIN input :
                     Occurrences(output, input[j])
                        = Occurrences(input, input[j])]_vars

C37_Witness ==
    \E c \in Chains :
       /\ CompletedResult(c)
       /\ syncStatuses[c].result.totalTokens = 2
       /\ syncStatuses[c].result.existingImages = 1
       /\ syncStatuses[c].result.failedDownloads = 1
       /\ last.op \in {"download", "migrate"}

----------------------------------------------------------------------------
(* What a success tag stands for *)

\* the tallies and details of the run of chain c: those of the invocation
\* while it is in its migration or download loop, those of the result once
\* it has returned
RunTally(ss, pp, c) ==
    IF pp[c] # <<>>
    THEN LET p == pp[c][1]
             started == "downloadResults" \in DOMAIN p
         IN [migrated |-> p.migrationResults.migrated,
             downloaded |-> IF started THEN p.downloadResults.downloaded
                            ELSE 0,
             details |-> p.migrationResults.details
                 \o (IF started THEN p.downloadResults.details ELSE <<>>)]
    ELSE [migrated |-> ss[c].result.migratedFromLocal,
          downloaded |-> ss[c].result.downloadedImages,
          details |-> ss[c].result.details]

Suffix(s, n) == SubSeq(s, Len(s) - n + 1, Len(s))

\* the bytes a migration callback got from the local provider
MigrateBytes(outcome) ==
    IF outcome.localImage # <<>> /\ "buffer" \in DOMAIN outcome.localImage[1]
    THEN <<outcome.localImage[1].buffer>>
    ELSE <<>>

\* the bytes a download iteration got from the resolved image
DownloadBytes(outcome) ==
    LET r == fetchImage(outcome.providers) IN
    IF r = <<>> THEN <<>>
    ELSE IF "buffer" \in DOMAIN r[1] THEN <<r[1].buffer>>
    ELSE IF "url" \in DOMAIN r[1]
    THEN downloadImageBuffer(r[1].url, outcome.httpOk)
    ELSE <<>>

\* the tokens a migrate or download step worked on, in the order their
\* details were pushed, each with the bytes obtained and what the put returned
StepWork(l) ==
    IF l.op = "migrate"
    THEN [i \in DOMAIN l.order |->
             [token |-> l.batch[l.order[i]],
              bytes |-> MigrateBytes(l.outcomes[l.order[i]]),
              put |-> l.outcomes[l.order[i]].uploadSuccess,
              tag |-> "migrated"]]
    ELSE <<[token |-> l.token,
            bytes |-> DownloadBytes(l.outcome),
            put |-> l.outcome.uploadSuccess,
            tag |-> "downloaded"]>>

\* C38: a token is tagged 'migrated' or 'downloaded' only if, during that
\* run, image bytes were obtained for it and the storage put under its
\* (chain, lowercased address) key returned success; a token whose put
\* returned failure or threw is never counted as migrated or downloaded.
C38_SuccessTagMeansStored ==
    [][\A c \in Chains :
          (last'.op \in {"migrate", "download"} /\ last'.chainId = c) =>
             LET before == RunTally(syncStatuses, pipes, c)
                 after == RunTally(syncStatuses', pipes', c)
                 work == StepWork(last')
                 new == Suffix(after.details, Len(work))
             IN /\ Len(after.details) >= Len(work)
                /\ \A i \in DOMAIN work :
                      /\ new[i].address = work[i].token.address
                      /\ new[i].status \in {"migrated", "downloaded"} =>
                            /\ new[i].status = work[i].tag
                            /\ work[i].bytes # <<>>
                            /\ work[i].put
                            /\ \E o \in storage' :
                                  /\ o.key = [chainId |-> c,
                                              address |-> ToLowerCase(
                                                  work[i].token.address)]
                                  /\ o.body = work[i].bytes[1]
                      /\ ~work[i].put => new[i].status = "failed"
                /\ after.migrated - before.migrated
                      = Cardinality({i \in DOMAIN work :
                            work[i].tag = "migrated" /\ work[i].put})
                /\ after.downloaded - before.downloaded
                      = Cardinality({i \in DOMAIN work :
                            work[i].tag = "downloaded" /\ work[i].put})]_vars

C38_Witness ==
    /\ last.op = "download"
    /\ DownloadBytes(last.outcome) # <<>>
    /\ ~last.outcome.uploadSuccess
    /\ \E j \in DOMAIN RunTally(syncStatuses, pipes, last.chainId).details :
          RunTally(syncStatuses, pipes, last.chainId).details[j].status
             = "migrated"

----------------------------------------------------------------------------
(* Field presence in SyncStatus *)

\* C39: a Running record has no endTime, no result and no error (nothing of
\* a previous run's terminal record survives into the fresh record); a
\* terminal record has endTime set with endTime >= startTime; a Failed record
\* has error set; a Completed record's result.duration is >= 0.
C39_FieldPresence ==
    \A c \in DOMAIN syncStatuses :
       LET st == syncStatuses[c] IN
       /\ st.status = "running" =>
             (DOMAIN st) \cap {"endTime", "result", "error"} = {}
       /\ IsTerminal(st) =>
             /\ "endTime" \in DOMAIN st
             /\ st.endTime >= st.startTime
       /\ st.status = "failed" => "error" \in DOMAIN st
       /\ st.status = "completed" =>
             /\ "result" \in DOMAIN st
             /\ st.result.duration >= 0

\* a sync has just been started over a record that failed
C39_Witness ==
    /\ last.op = "startSync"
    /\ last.kind = "started"
    /\ last.before # <<>>
    /\ last.before[1].status = "failed"
    /\ "error" \in DOMAIN last.before[1]
    /\ syncStatuses[last.chainId].status = "running"
    /\ \E c \in DOMAIN syncStatuses :
          /\ syncStatuses[c].status = "running"
          /\ syncStatuses[c].startTime > Epoch

----------------------------------------------------------------------------
(* Rate-limit queries and admission *)

====
